---------------------------- MODULE Spec2Model ----------------------------
(***************************************************************************)
(* A model of docwen: the function index of c_parse.rs and the doc         *)
(* comparator of docwen_check.rs.                                          *)
(*                                                                         *)
(* Text is modelled at character level: a String is a sequence of          *)
(* one-character strings, a path is a sequence of path components.         *)
(***************************************************************************)
EXTENDS Integers, Sequences, FiniteSets, TLC

VARIABLES
    fs,             \* the file system: absolute path -> file
    docfig,         \* the loaded configuration: a sequence of file groups
    pc,             \* where check stands: "index", "scan", "done"
    gi,             \* check: number of file groups indexed so far
    position_maps,  \* check: one map FunctionID -> positions per indexed group
    mi,             \* check: the map being scanned
    pending,        \* check: identities of map mi not yet visited
    mismatches,     \* check: the mismatches pushed so far
    result,         \* what check returned: NoResult, Ok(mismatches) or Err
    scanned,        \* log of the scans: one record per identity visited
    run,            \* number of the current run of check
    previous,       \* what the previous run returned
    lineSource,     \* SpecLine: the LineSource under test
    lsOut,          \* SpecLine: the last lookup, or NoResult
    idxPaths,       \* SpecIndex: the paths handed to find_function_positions
    idxUseQualifiers, \* SpecIndex: its use_qualifiers argument
    functions,      \* SpecIndex: the map before functions.retain
    idxOut,         \* SpecIndex: what find_function_positions returned
    maskSrc,        \* SpecMask: the text handed to mask_preprocessor
    maskOut,        \* SpecMask: what mask_preprocessor returned
    fmtTarget,      \* SpecFormat: settings.target of the configuration
    fmtArgs,        \* SpecFormat: the arguments of format_mismatch
    fmtOut,         \* SpecFormat: the string format_mismatch returned
    cfgFile,        \* SpecDocfig: the docwen.toml handed to Docfig::from_file
    cfgOut,         \* SpecDocfig: what Docfig::from_file returned
    disk,           \* SpecCreate: the paths that exist, with what they hold
    diskBefore,     \* SpecCreate: the disk before the last create_default
    createOut,      \* SpecCreate: the last call of create_default
    workspace,      \* SpecUpdate: docwen.toml and the files under its root
    workspaceBefore, \* SpecUpdate: the workspace before the last update_toml
    updateOut,      \* SpecUpdate: the last call of update_toml
    treeIn,         \* SpecTree: the syntax tree of a source text
    treeOut         \* SpecTree: the last call on the tree

vars == <<fs, docfig, pc, gi, position_maps, mi, pending, mismatches, result,
          scanned, run, previous, lineSource, lsOut, idxPaths, idxUseQualifiers,
          functions, idxOut, maskSrc, maskOut, fmtTarget, fmtArgs, fmtOut,
          cfgFile, cfgOut, disk, diskBefore, createOut, workspace,
          workspaceBefore, updateOut, treeIn, treeOut>>
checkVars == <<pc, gi, position_maps, mi, pending, mismatches, result,
               scanned, run, previous>>
lineVars == <<lineSource, lsOut>>
indexVars == <<idxPaths, idxUseQualifiers, functions, idxOut>>
maskVars == <<maskSrc, maskOut>>
\* The variables of the functions modelled on their own, apart from check,
\* LineSource and find_function_positions.
formatVars == <<fmtTarget, fmtArgs, fmtOut>>
docfigVars == <<cfgFile, cfgOut>>
createVars == <<disk, diskBefore, createOut>>
updateVars == <<workspace, workspaceBefore, updateOut>>
treeVars == <<treeIn, treeOut>>
unitVars == <<maskVars, formatVars, docfigVars, createVars, updateVars,
              treeVars>>

(***************************************************************************)
(* Bounds of the model.                                                    *)
(***************************************************************************)
\* Longest doc block (in lines) written above a function in a generated file.
MaxDoc == 2
\* Number of runs of check on the same files (the second run repeats the first).
MaxRuns == 2
\* Largest |offset| handed to trimmed_line_by_offset in SpecLine.
MaxOffset == 3

(***************************************************************************)
(* Strings                                                                 *)
(***************************************************************************)
NL == "\n"
CR == "\r"

\* A Result: Ok(value) or Err.  An Option: Some(value) or None.
Ok(v) == [ok |-> TRUE, value |-> v]
Err == [ok |-> FALSE]
Some(v) == [some |-> TRUE, value |-> v]
None == [some |-> FALSE]
\* No value yet.
NoResult == [none |-> TRUE]

\* char::is_whitespace, restricted to the characters the model uses.
IsWhitespace(c) == c \in {" ", "\t", "\n", "\r"}

RECURSIVE TrimStart(_)
\* str::trim_start
TrimStart(s) ==
    IF s # <<>> /\ IsWhitespace(Head(s)) THEN TrimStart(Tail(s)) ELSE s

RECURSIVE TrimEnd(_)
\* str::trim_end
TrimEnd(s) ==
    IF s # <<>> /\ IsWhitespace(s[Len(s)])
    THEN TrimEnd(SubSeq(s, 1, Len(s) - 1))
    ELSE s

\* str::trim
Trim(s) == TrimEnd(TrimStart(s))

\* str::starts_with
StartsWith(s, p) == Len(s) >= Len(p) /\ SubSeq(s, 1, Len(p)) = p

RECURSIVE SplitNewline(_, _, _)
\* The segments of s between "\n" characters (k+1 segments for k newlines);
\* cur is the segment being read, acc the finished ones.
SplitNewline(s, cur, acc) ==
    IF s = <<>> THEN Append(acc, cur)
    ELSE IF Head(s) = NL THEN SplitNewline(Tail(s), <<>>, Append(acc, cur))
    ELSE SplitNewline(Tail(s), Append(cur, Head(s)), acc)

\* One line of str::lines: a trailing "\r" of the segment is not part of it.
StripCR(l) ==
    IF l # <<>> /\ l[Len(l)] = CR THEN SubSeq(l, 1, Len(l) - 1) ELSE l

\* The lines of the segments: no empty last line for a text that ends with
\* a line ending.
LinesOf(segs) ==
    [i \in 1..(IF segs[Len(segs)] = <<>> THEN Len(segs) - 1 ELSE Len(segs))
        |-> StripCR(segs[i])]

\* str::lines: split at "\n", the line ending ("\n" or "\r\n") removed.
Lines(src) == LinesOf(SplitNewline(src, <<>>, <<>>))

RECURSIVE Concat(_)
\* The concatenation of a sequence of strings.
Concat(ss) == IF ss = <<>> THEN <<>> ELSE Head(ss) \o Concat(Tail(ss))

(***************************************************************************)
(* The syntax tree (the tree-sitter C++ grammar, as far as the model goes) *)
(*                                                                         *)
(* A tree is the sequence of its nodes in pre-order.  A node has a kind, a *)
(* parent (an index, 0 for the root), a start position, its text when it   *)
(* is a leaf the code reads, and the field name it has in its parent.      *)
(***************************************************************************)
Node(kind, parent, row, column, text, field) ==
    [kind |-> kind, parent |-> parent, row |-> row, column |-> column,
     text |-> text, field |-> field]

\* The first index of character c in s, 0 when there is none.
IndexOf(s, c) ==
    IF \E i \in 1..Len(s) : s[i] = c
    THEN CHOOSE i \in 1..Len(s) : s[i] = c /\ \A j \in 1..(i - 1) : s[j] # c
    ELSE 0

\* Whether s contains "::".
HasScopeOp(s) == \E i \in 1..(Len(s) - 1) : s[i] = ":" /\ s[i + 1] = ":"

IntKw == <<"i", "n", "t", " ">>

\* The declarator subtree of a function whose declarator starts at col: the
\* function_declarator (third node of its line, child of the first), its
\* name and its parameter list.
DeclaratorNodes(row, col, name, params) ==
    << Node("function_declarator", 1, row, col, <<>>, "declarator"),
       Node(IF HasScopeOp(name) THEN "qualified_identifier" ELSE "identifier",
            3, row, col, name, "declarator"),
       Node("parameter_list", 3, row, col + Len(name), params, "parameters") >>

\* The nodes of `int NAME PARAMS TAIL` at column lead: a declaration for the
\* tail `;`, a function_definition for the tail `{}`.
FunctionNodes(row, lead, name, params, tail) ==
    IF tail = <<";">>
    THEN << Node("declaration", 0, row, lead, <<>>, ""),
            Node("primitive_type", 1, row, lead, <<>>, "type") >>
         \o DeclaratorNodes(row, lead + Len(IntKw), name, params)
    ELSE IF tail = <<"{", "}">>
    THEN << Node("function_definition", 0, row, lead, <<>>, ""),
            Node("primitive_type", 1, row, lead, <<>>, "type") >>
         \o DeclaratorNodes(row, lead + Len(IntKw), name, params)
         \o << Node("compound_statement", 1, row,
                    lead + Len(IntKw) + Len(name) + Len(params), <<>>, "body") >>
    ELSE <<>>

\* The nodes of the text `rest` that follows `int `, its first "(" at p and
\* its first ")" at q.
SignatureNodes(row, lead, rest, p, q) ==
    IF p > 1 /\ q > p
    THEN FunctionNodes(row, lead, SubSeq(rest, 1, p - 1), SubSeq(rest, p, q),
                       SubSeq(rest, q + 1, Len(rest)))
    ELSE <<>>

\* nodes appended to tree, hung under node `under`.
Graft(tree, under, nodes) ==
    tree \o [k \in 1..Len(nodes) |->
                [nodes[k] EXCEPT !.parent =
                    IF nodes[k].parent = 0 THEN under
                    ELSE nodes[k].parent + Len(tree)]]

NamespaceKw == <<"n", "a", "m", "e", "s", "p", "a", "c", "e", " ">>

RECURSIVE BodyNodes(_, _, _, _)

\* The nodes of `namespace NAME { INNER }` at column lead, `rest` being the
\* text behind `namespace ` and sp the place of its first blank: the
\* namespace_definition, its name, and its declaration_list with the nodes of
\* INNER under it.
NamespaceNodes(row, lead, rest, sp) ==
    IF /\ sp > 1
       /\ Len(rest) >= sp + 3
       /\ SubSeq(rest, sp, sp + 2) = <<" ", "{", " ">>
       /\ SubSeq(rest, Len(rest) - 1, Len(rest)) = <<" ", "}">>
    THEN Graft(<< Node("namespace_definition", 0, row, lead, <<>>, ""),
                  Node(IF HasScopeOp(SubSeq(rest, 1, sp - 1))
                       THEN "nested_namespace_specifier"
                       ELSE "namespace_identifier",
                       1, row, lead + Len(NamespaceKw),
                       SubSeq(rest, 1, sp - 1), "name"),
                  Node("declaration_list", 1, row,
                       lead + Len(NamespaceKw) + sp, <<>>, "body") >>,
               3,
               BodyNodes(row, lead + Len(NamespaceKw) + sp + 2,
                         SubSeq(rest, sp + 3, Len(rest) - 2),
                         SubSeq(rest, sp + 3 + Len(IntKw), Len(rest) - 2)))
    ELSE <<>>

\* The nodes of a trimmed line that stood at column lead; `rest` is the line
\* behind its `int `.
BodyNodes(row, lead, body, rest) ==
    IF StartsWith(body, IntKw)
    THEN SignatureNodes(row, lead, rest, IndexOf(rest, "("), IndexOf(rest, ")"))
    ELSE IF StartsWith(body, NamespaceKw)
    THEN NamespaceNodes(row, lead,
                        SubSeq(body, Len(NamespaceKw) + 1, Len(body)),
                        IndexOf(SubSeq(body, Len(NamespaceKw) + 1, Len(body)), " "))
    ELSE <<>>

\* The parser on one line of the masked text.  The model's language has one
\* function per line: `int NAME(PARAMS);` is a declaration and
\* `int NAME(PARAMS){}` a definition, each possibly inside
\* `namespace NAME { .. }`; every other line (a comment, a blank line, masked
\* preprocessor text) yields no node the extractor looks at.
\* The nodes come in pre-order, parents relative to the first node (0: the
\* node the line hangs under).
ParseLine(row, line) ==
    BodyNodes(row, Len(line) - Len(TrimStart(line)), Trim(line),
              SubSeq(Trim(line), Len(IntKw) + 1, Len(Trim(line))))

RECURSIVE ParseRows(_, _, _)
\* The parser on the lines from `row` on.
ParseRows(lines, row, tree) ==
    IF row >= Len(lines) THEN tree
    ELSE ParseRows(lines, row + 1, Graft(tree, 1, ParseLine(row, lines[row + 1])))

\* Parser::parse on a text the parser accepts: the tree of the text, its
\* root a translation_unit.
ParseTree(src) ==
    ParseRows(Lines(src), 0, << Node("translation_unit", 0, 0, 0, <<>>, "") >>)

(***************************************************************************)
(* LineSource (docwen_check.rs)                                            *)
(***************************************************************************)
\* usize arithmetic wraps at 2^64; the model wraps at 2^30, the largest power
\* TLC's integers carry.  Every width larger than the number of lines of a
\* file gives the same lookup.
UsizeModulus == 2^30

\* `row as usize` for an isize row.
AsUsize(row) == row % UsizeModulus

\* Iterator::nth on the lines of a text: the element at a zero-based index,
\* or None.
Nth(lines, n) == IF n < Len(lines) THEN Some(lines[n + 1]) ELSE None

\* with_context(..)?.trim() on the Option nth gave, with the line left
\* untrimmed.
UntrimmedOrErr(line) == IF line.some THEN Ok(line.value) ELSE Err

\* with_context(..)?.trim() on the Option nth gave: None becomes Err.
TrimmedOrErr(line) == IF line.some THEN Ok(Trim(line.value)) ELSE Err

\* LineSource::trimmed_line_by_offset: the line at init_row + offset, trimmed.
TrimmedLineByOffset(ls, offset) ==
    TrimmedOrErr(Nth(Lines(ls.src), AsUsize(ls.init_row + offset)))

(***************************************************************************)
(* c_parse.rs                                                              *)
(***************************************************************************)
Spaces(n) == [i \in 1..n |-> " "]

RECURSIVE SplitInclusive(_, _, _)
\* str::split_inclusive(['\n', '\r']): the pieces of s, each ending with the
\* "\n" or "\r" that closes it; a last piece without one when s does not end
\* with either.
SplitInclusive(s, cur, acc) ==
    IF s = <<>> THEN (IF cur = <<>> THEN acc ELSE Append(acc, cur))
    ELSE IF Head(s) \in {NL, CR}
    THEN SplitInclusive(Tail(s), <<>>, Append(acc, Append(cur, Head(s))))
    ELSE SplitInclusive(Tail(s), Append(cur, Head(s)), acc)

\* strip_suffix('\r') on what strip_suffix('\n') left of a piece.
SplitCR(rest) ==
    IF rest # <<>> /\ rest[Len(rest)] = CR
    THEN [body |-> SubSeq(rest, 1, Len(rest) - 1), eol |-> <<CR, NL>>]
    ELSE [body |-> rest, eol |-> <<NL>>]

\* The (body, eol) of one piece: strip_suffix('\n'), then strip_suffix('\r').
SplitEol(line) ==
    IF line # <<>> /\ line[Len(line)] = NL
    THEN SplitCR(SubSeq(line, 1, Len(line) - 1))
    ELSE [body |-> line, eol |-> <<>>]

RECURSIVE MaskPieces(_, _, _)
\* One round of the loop of mask_preprocessor, on a piece split in (body, eol).
MaskPiece(be, pieces, in_continuation, out) ==
    IF in_continuation \/ StartsWith(TrimStart(be.body), <<"#">>)
    THEN MaskPieces(pieces,
                    be.body # <<>> /\ be.body[Len(be.body)] = "\\",
                    out \o Spaces(Len(be.body)) \o be.eol)
    ELSE MaskPieces(pieces, FALSE, out \o be.body \o be.eol)

\* The loop of mask_preprocessor over the pieces.
MaskPieces(pieces, in_continuation, out) ==
    IF pieces = <<>> THEN out
    ELSE MaskPiece(SplitEol(Head(pieces)), Tail(pieces), in_continuation, out)

\* mask_preprocessor
MaskPreprocessor(src) ==
    MaskPieces(SplitInclusive(src, <<>>, <<>>), FALSE, <<>>)

\* A FunctionID that leaves the parameter text out.
FunctionIDByName(name, params) == [name |-> name, params |-> <<>>]

\* A FunctionID and a FilePosition.
FunctionID(name, params) == [name |-> name, params |-> params]
FilePosition(path, row, column) ==
    [path |-> path, row |-> row, column |-> column]

\* A HashMap<FunctionID, Vec<FilePosition>> is a function from its keys.
EmptyMap == [id \in {} |-> <<>>]

\* map.entry(id).or_insert(Vec::new()).push(pos)
EntryPush(map, id, pos) ==
    IF id \in DOMAIN map THEN [map EXCEPT ![id] = Append(@, pos)]
    ELSE [k \in DOMAIN map \cup {id} |-> IF k = id THEN <<pos>> ELSE map[k]]

\* has_definition_ancestor that finds no ancestor.
NoDefinitionAncestor(tree, n) == FALSE

RECURSIVE HasDefinitionAncestor(_, _)
\* has_definition_ancestor
HasDefinitionAncestor(tree, n) ==
    IF tree[n].parent = 0 THEN FALSE
    ELSE IF tree[tree[n].parent].kind = "function_definition" THEN TRUE
    ELSE HasDefinitionAncestor(tree, tree[n].parent)

RECURSIVE IndicesWhere(_, _, _)
\* The indices k..Len(tree) of the nodes whose parent is n, ascending.
IndicesWhere(tree, n, k) ==
    IF k > Len(tree) THEN <<>>
    ELSE IF tree[k].parent = n THEN <<k>> \o IndicesWhere(tree, n, k + 1)
    ELSE IndicesWhere(tree, n, k + 1)

\* Node::children: the children of n in source order.
Children(tree, n) == IndicesWhere(tree, n, n + 1)

RECURSIVE FindDeclarator(_, _), FindDeclaratorIn(_, _)
\* `if let Some(d) = find_declarator(child) { return Some(d); }`, then the
\* rest of the children.
FoundOrNext(d, tree, children) ==
    IF d.some THEN d ELSE FindDeclaratorIn(tree, children)
\* The loop of find_declarator over the children.
FindDeclaratorIn(tree, children) ==
    IF children = <<>> THEN None
    ELSE FoundOrNext(FindDeclarator(tree, Head(children)), tree, Tail(children))
\* find_declarator: n itself when it is a function_declarator, else the
\* first one found in its children, depth first.
FindDeclarator(tree, n) ==
    IF tree[n].kind = "function_declarator" THEN Some(n)
    ELSE FindDeclaratorIn(tree, Children(tree, n))

NameKinds == {"identifier", "qualified_identifier", "operator_name",
              "field_identifier", "destructor_name"}

RECURSIVE LastTextOf(_, _, _, _)
\* The text of the last child whose kind is in kinds, found so far being acc.
LastTextOf(tree, children, kinds, acc) ==
    IF children = <<>> THEN acc
    ELSE LastTextOf(tree, Tail(children), kinds,
                    IF tree[Head(children)].kind \in kinds
                    THEN Some(tree[Head(children)].text)
                    ELSE acc)

\* The loop of get_name_and_params over the children of the declarator.
NameAndParamsIn(tree, children) ==
    [name |-> LastTextOf(tree, children, NameKinds, None),
     params |-> LastTextOf(tree, children, {"parameter_list"}, None)]

\* get_name_and_params: (name, params) of a declarator, each an Option.
GetNameAndParams(tree, declarator) ==
    NameAndParamsIn(tree, Children(tree, declarator))

ScopeKinds == {"class_specifier", "struct_specifier", "union_specifier",
               "namespace_definition"}

\* The first of the children with the field "name", an Option of its text.
FirstNamed(tree, named) ==
    IF named = <<>> THEN None ELSE Some(tree[Head(named)].text)

\* Node::child_by_field_name("name")
NameFieldOf(tree, n) ==
    FirstNamed(tree, SelectSeq(Children(tree, n), LAMBDA c : tree[c].field = "name"))

\* What an ancestor adds to the qualifiers: its name when it is a scope and
\* has one.
QualifierOf(kind, name) ==
    IF kind \in ScopeKinds /\ name.some THEN <<name.value>> ELSE <<>>

RECURSIVE InnermostFirst(_, _)
\* The qualifiers as they are pushed, innermost first, the list not reversed.
InnermostFirst(tree, n) ==
    IF tree[n].parent = 0 THEN <<>>
    ELSE QualifierOf(tree[tree[n].parent].kind, NameFieldOf(tree, tree[n].parent))
         \o InnermostFirst(tree, tree[n].parent)

RECURSIVE Qualifiers(_, _)
\* The qualifiers get_qualified_name collects walking up from n, outermost
\* first (the code pushes them innermost first and reverses the list).
Qualifiers(tree, n) ==
    IF tree[n].parent = 0 THEN <<>>
    ELSE Qualifiers(tree, tree[n].parent)
         \o QualifierOf(tree[tree[n].parent].kind, NameFieldOf(tree, tree[n].parent))

ScopeOp == <<":", ":">>

RECURSIVE JoinScope(_)
\* [String]::join("::")
JoinScope(parts) ==
    IF parts = <<>> THEN <<>>
    ELSE IF Len(parts) = 1 THEN Head(parts)
    ELSE Head(parts) \o ScopeOp \o JoinScope(Tail(parts))

\* The end of get_qualified_name: the name behind the qualifiers.
Qualified(qualifiers, func_name) ==
    IF qualifiers = <<>> THEN func_name
    ELSE JoinScope(qualifiers) \o ScopeOp \o func_name

\* get_qualified_name that leaves the enclosing scopes out.
UnscopedName(tree, n, func_name) == func_name

\* get_qualified_name
GetQualifiedName(tree, n, func_name) ==
    Qualified(Qualifiers(tree, n), func_name)

\* The part of name after the last of the places `at` where a "::" starts.
AfterLast(name, at) ==
    IF at = {} THEN name
    ELSE SubSeq(name, (CHOOSE i \in at : \A j \in at : j <= i) + 2, Len(name))

\* The name with its qualifiers kept.
WholeName(name) == name

\* name.split("::").last(): the part of name after its last "::".
LastSegment(name) ==
    AfterLast(name, {i \in 1..(Len(name) - 1) : name[i] = ":" /\ name[i + 1] = ":"})

\* The end of get_function_id, with (name, params) of the declarator.
IdOfNameAndParams(tree, n, name, params, with_qualifiers) ==
    IF ~name.some THEN None
    ELSE IF with_qualifiers
    THEN Some(FunctionID(GetQualifiedName(tree, n, name.value),
                         IF params.some THEN params.value ELSE <<"(", ")">>))
    ELSE Some(FunctionID(LastSegment(name.value),
                         IF params.some THEN params.value ELSE <<"(", ")">>))

\* get_function_id behind `find_declarator(node)?`.
IdOfDeclarator(tree, n, declarator, with_qualifiers) ==
    IF ~declarator.some THEN None
    ELSE IdOfNameAndParams(tree, n,
                           GetNameAndParams(tree, declarator.value).name,
                           GetNameAndParams(tree, declarator.value).params,
                           with_qualifiers)

\* get_function_id: an Option of FunctionID.
GetFunctionId(tree, n, with_qualifiers) ==
    IdOfDeclarator(tree, n, FindDeclarator(tree, n), with_qualifiers)

\* `if let Some(id) = .. { map.entry(id).or_insert(..).push(pos) }`
PushIfSome(map, id, pos) ==
    IF id.some THEN EntryPush(map, id.value, pos) ELSE map

\* The closure extract_functions hands to visit_all_nodes, on node n.
VisitNode(tree, n, file, map, use_qualifiers) ==
    IF tree[n].kind \in {"function_definition", "function_declarator"}
       /\ ~HasDefinitionAncestor(tree, n)
    THEN PushIfSome(map, GetFunctionId(tree, n, use_qualifiers),
                    FilePosition(file, tree[n].row, tree[n].column))
    ELSE map

RECURSIVE VisitAllNodes(_, _, _, _, _)
\* visit_all_nodes from node n on: pre-order is the order of the sequence.
VisitAllNodes(tree, n, file, map, use_qualifiers) ==
    IF n > Len(tree) THEN map
    ELSE VisitAllNodes(tree, n + 1, file,
                       VisitNode(tree, n, file, map, use_qualifiers),
                       use_qualifiers)

\* extract_functions
ExtractFunctions(tree, file, map, use_qualifiers) ==
    VisitAllNodes(tree, 1, file, map, use_qualifiers)

\* fs::read_to_string
ReadToString(path) ==
    IF path \in DOMAIN fs /\ fs[path].readable THEN Ok(fs[path].src) ELSE Err

\* Parser::parse: None when the parser gives up on the text.
Parse(path, text) ==
    IF fs[path].parses THEN Some(ParseTree(text)) ELSE None

\* The round that goes on without the file when the parser gave no tree.
SkipUnparsed(tree, path, map, use_qualifiers) ==
    IF tree.some THEN Ok(ExtractFunctions(tree.value, path, map, use_qualifiers))
    ELSE Ok(map)

\* One round of the loop of find_function_positions behind the `?` of
\* parser.parse.
ExtractTree(tree, path, map, use_qualifiers) ==
    IF tree.some THEN Ok(ExtractFunctions(tree.value, path, map, use_qualifiers))
    ELSE Err

\* One round of the loop of find_function_positions behind the `?` of
\* fs::read_to_string.
ExtractSource(source, path, map, use_qualifiers) ==
    IF source.ok
    THEN ExtractTree(Parse(path, MaskPreprocessor(source.value)), path, map,
                     use_qualifiers)
    ELSE Err

\* One round of the loop of find_function_positions: Ok(map) with the
\* functions of `path` added, or Err.
ExtractPath(path, map, use_qualifiers) ==
    ExtractSource(ReadToString(path), path, map, use_qualifiers)

\* functions.retain that keeps every entry.
RetainAll(map) == map

\* functions.retain(|_, vec| vec.len() > 1)
Retain(map) == [id \in {k \in DOMAIN map : Len(map[k]) > 1} |-> map[id]]

RECURSIVE ExtractPaths(_, _, _)
\* The next round of the loop when this one gave r.
ExtractRest(r, paths, use_qualifiers) ==
    IF r.ok THEN ExtractPaths(paths, r.value, use_qualifiers) ELSE Err
\* The loop of find_function_positions over the paths.
ExtractPaths(paths, map, use_qualifiers) ==
    IF paths = <<>> THEN Ok(map)
    ELSE ExtractRest(ExtractPath(Head(paths), map, use_qualifiers), Tail(paths),
                     use_qualifiers)

\* The end of find_function_positions: retain, on what the loop gave.
RetainOk(r) == IF r.ok THEN Ok(Retain(r.value)) ELSE Err

\* find_function_positions
FindFunctionPositions(paths, use_qualifiers) ==
    RetainOk(ExtractPaths(paths, EmptyMap, use_qualifiers))

(***************************************************************************)
(* docwen_check.rs                                                         *)
(***************************************************************************)
\* The path of docwen.toml handed to check.
TomlPath == <<"ws", "docwen.toml">>
\* Path::parent
ParentOf(path) == SubSeq(path, 1, Len(path) - 1)
\* toml_manager::get_absolute_root for the relative target ".": the
\* directory of docwen.toml.
Root == ParentOf(TomlPath)
\* PathBuf::join of a relative path
Join(base, rel) == base \o rel

\* Path::strip_prefix(base).unwrap_or(path)
StripPrefixOr(path, base) ==
    IF StartsWith(path, base) THEN SubSeq(path, Len(base) + 1, Len(path))
    ELSE path

\* format_mismatch that lists the position of the first occurrence only.
FormatFirstPositionOnly(match_str, vec, toml_path) ==
    [line |-> match_str,
     group |-> << [path |-> StripPrefixOr(vec[1].path, ParentOf(toml_path)),
                   row |-> vec[1].row, column |-> vec[1].column] >>]

\* format_mismatch.  The string it builds is kept in its parts: the quoted
\* line, and the `path:row:column` triples that stand, comma-joined, between
\* `-> [` and `]`.
FormatMismatch(match_str, vec, toml_path) ==
    [line |-> match_str,
     group |-> [i \in 1..Len(vec) |->
                   [path |-> StripPrefixOr(vec[i].path, ParentOf(toml_path)),
                    row |-> vec[i].row, column |-> vec[i].column]]]

\* A test that takes every line that is not empty for a comment line.
IsNotEmpty(s) == s # <<>>

\* The comment test of the scan loop.
IsCommentLine(s) ==
    \/ StartsWith(s, <<"/", "/">>)
    \/ StartsWith(s, <<"/", "*">>)
    \/ StartsWith(s, <<"*">>)

\* The sources of the occurrences of one identity: Ok(Vec<LineSource>), or Err
\* when a file cannot be read.
ReadSources(vec) ==
    IF \E i \in 1..Len(vec) : ~ReadToString(vec[i].path).ok THEN Err
    ELSE Ok([i \in 1..Len(vec) |->
                [src |-> ReadToString(vec[i].path).value,
                 init_row |-> vec[i].row]])

\* collect::<Result<_, _>>() on the lookups: Err when one of them failed.
CollectOk(got) ==
    IF \E i \in 1..Len(got) : ~got[i].ok THEN Err
    ELSE Ok([i \in 1..Len(got) |-> got[i].value])

\* cur_lines at an offset.
CurLines(sources, offset) ==
    CollectOk([i \in 1..Len(sources) |-> TrimmedLineByOffset(sources[i], offset)])

\* What the scan of one identity gives: whether it ended without error, the
\* (offset, line) pairs for which it pushed a mismatch, and the last offset
\* it looked at.
ScanOutcome(ok, pushed, offset) ==
    [ok |-> ok, pushed |-> pushed, offset |-> offset]

RECURSIVE ScanLoop(_, _, _)

\* The scan going on to the next offset after it pushed a mismatch.
ContinueAfterMismatch(sources, offset, pushed) ==
    ScanLoop(sources, offset - 1, pushed)

\* The `break` after the push of a mismatch.
AfterMismatch(sources, offset, pushed) ==
    ScanOutcome(TRUE, pushed, offset)

\* One round of the scan loop of check, with the lines at the offset.
ScanLines(cur_lines, sources, offset, pushed) ==
    IF ~cur_lines.ok THEN ScanOutcome(FALSE, pushed, offset)
    ELSE IF ~\E i \in 1..Len(sources) : IsCommentLine(cur_lines.value[i])
    THEN ScanOutcome(TRUE, pushed, offset)
    ELSE IF \E i \in 1..Len(sources) : cur_lines.value[i] # cur_lines.value[1]
    THEN AfterMismatch(sources, offset,
                       Append(pushed, [offset |-> offset,
                                       line |-> cur_lines.value[1]]))
    ELSE ScanLoop(sources, offset - 1, pushed)

\* The scan loop of check for one identity, from `offset` upwards.
ScanLoop(sources, offset, pushed) ==
    ScanLines(CurLines(sources, offset), sources, offset, pushed)

\* The scan as a Result.
ScanResult(scan) == IF scan.ok THEN Ok(scan) ELSE Err

\* The scan of the sources, behind the `?` of their collect.
ScanSources(sources) ==
    IF sources.ok THEN ScanResult(ScanLoop(sources.value, -1, <<>>)) ELSE Err

\* The body of the loop `for (_, vec) in map` for one entry: Err, or Ok of
\* the scan's outcome.
CheckEntry(vec) == ScanSources(ReadSources(vec))

\* The first map from index m on that has an entry, Len(maps) + 1 when none.
RECURSIVE NextMapFrom(_, _)
NextMapFrom(maps, m) ==
    IF m > Len(maps) THEN m
    ELSE IF DOMAIN maps[m] # {} THEN m
    ELSE NextMapFrom(maps, m + 1)

\* The files of all groups in place of those of one.
FilesOfAllGroups(file_group) ==
    <<Join(Root, <<"a.c">>), Join(Root, <<"b.c">>), Join(Root, <<"c.c">>)>>

\* The absolute paths of a file group.
AbsFiles(file_group) ==
    [i \in 1..Len(file_group.files) |-> Join(Root, file_group.files[i])]

\* The first loop of check is over, with these maps: the second one starts at
\* the first map that has an entry, or check returns when there is none.
StartScan(maps, first) ==
    IF first > Len(maps)
    THEN /\ pc' = "done"
         /\ result' = Ok(mismatches)
         /\ UNCHANGED <<mi, pending>>
    ELSE /\ pc' = "scan"
         /\ mi' = first
         /\ pending' = DOMAIN maps[first]
         /\ UNCHANGED result

\* check, first loop: find_function_positions on the next file group.  An
\* error returns at once; after the last group the second loop starts.  The
\* call in check names no use_qualifiers, so either value may be the one in
\* force.
IndexGroup ==
    /\ pc = "index"
    /\ gi < Len(docfig)
    /\ \E use_qualifiers \in BOOLEAN :
       \E found \in {FindFunctionPositions(AbsFiles(docfig[gi + 1]),
                                          use_qualifiers)} :
        IF ~found.ok
        THEN /\ result' = Err
             /\ pc' = "done"
             /\ UNCHANGED <<gi, position_maps, mi, pending>>
        ELSE /\ position_maps' = Append(position_maps, found.value)
             /\ gi' = gi + 1
             /\ IF gi + 1 < Len(docfig)
                THEN UNCHANGED <<pc, mi, pending, result>>
                ELSE \E maps \in {Append(position_maps, found.value)} :
                        StartScan(maps, NextMapFrom(maps, 1))
    /\ UNCHANGED <<fs, docfig, mismatches, scanned, run, previous>>
    /\ UNCHANGED <<lineVars, indexVars>>
    /\ UNCHANGED unitVars

\* The mismatches check pushes for the (offset, line) pairs of a scan.
Formatted(pushed, vec) ==
    [k \in 1..Len(pushed) |-> FormatMismatch(pushed[k].line, vec, TomlPath)]

\* The entry of map mi is done: the next entry, the next map that has one,
\* or the return of the mismatches `all`.
NextEntry(left, next, all) ==
    IF next > Len(position_maps)
    THEN /\ pc' = "done"
         /\ result' = Ok(all)
         /\ UNCHANGED <<mi, pending>>
    ELSE /\ mi' = next
         /\ pending' = IF left # {} THEN left ELSE DOMAIN position_maps[next]
         /\ UNCHANGED <<pc, result>>

\* check, second loop: one entry (id, vec) of the map being scanned.  The
\* order in which a HashMap yields its entries is not fixed, so any entry not
\* yet visited may come next.  After the last entry of the last map check
\* returns the mismatches.
CheckIdentity ==
    /\ pc = "scan"
    /\ \E id \in pending :
        \E r \in {CheckEntry(position_maps[mi][id])} :
            IF ~r.ok
            THEN /\ result' = Err
                 /\ pc' = "done"
                 /\ UNCHANGED <<mi, pending, mismatches, scanned>>
            ELSE \E all \in {mismatches
                             \o Formatted(r.value.pushed, position_maps[mi][id])} :
                    /\ mismatches' = all
                    /\ scanned' = scanned \cup
                           {[map |-> mi, id |-> id, offset |-> r.value.offset,
                             pushed |-> r.value.pushed]}
                    /\ NextEntry(pending \ {id},
                                 IF pending # {id} THEN mi
                                 ELSE NextMapFrom(position_maps, mi + 1),
                                 all)
    /\ UNCHANGED <<fs, docfig, gi, position_maps, run, previous>>
    /\ UNCHANGED <<lineVars, indexVars>>
    /\ UNCHANGED unitVars

\* check is run again on the same configuration and files.
Rerun ==
    /\ pc = "done"
    /\ run < MaxRuns
    /\ run' = run + 1
    /\ previous' = result
    /\ pc' = "index"
    /\ gi' = 0
    /\ position_maps' = <<>>
    /\ mi' = 0
    /\ pending' = {}
    /\ mismatches' = <<>>
    /\ result' = NoResult
    /\ scanned' = {}
    /\ UNCHANGED <<fs, docfig>>
    /\ UNCHANGED <<lineVars, indexVars>>
    /\ UNCHANGED unitVars

(***************************************************************************)
(* The files and configurations of the model                               *)
(***************************************************************************)
CommentA == <<"/", "/", " ", "a">>
CommentB == <<"/", "/", " ", "b">>
DeclF == <<"i", "n", "t", " ", "f", "(", ")", ";">>
DefF == <<"i", "n", "t", " ", "f", "(", ")", "{", "}">>
DefG == <<"i", "n", "t", " ", "g", "(", ")", "{", "}">>
Blank == <<>>

\* The text of a file with the given lines, each ended by "\n".
TextOf(lines) == Concat([i \in 1..Len(lines) |-> Append(lines[i], NL)])

DocLines == {CommentA, CommentB}
\* The doc blocks of up to MaxDoc lines.
DocBlocks == UNION {[1..n -> DocLines] : n \in 0..MaxDoc}

\* What stands above the doc block of f: nothing (the block starts the
\* file), a blank line, or a documented g below a blank line.
Leads == {<<>>, <<Blank>>} \cup {<<Blank, d, DefG>> : d \in DocLines}

File(readable, parses, src) ==
    [readable |-> readable, parses |-> parses, src |-> src]

\* A file that cannot be read, and a file the parser gives up on.
Unreadable == File(FALSE, TRUE, <<>>)
Unparsable == File(TRUE, FALSE, TextOf(<<Blank, CommentA, DeclF>>))

\* The source files of the model: f declared below a doc block, below any of
\* the leads.
SourceFiles ==
    {File(TRUE, TRUE, TextOf(lead \o doc \o <<DeclF>>)) :
        lead \in Leads, doc \in DocBlocks}
\* Those in which a blank line stands above the doc block of f.
PlainFiles ==
    {File(TRUE, TRUE, TextOf(<<Blank>> \o doc \o <<DeclF>>)) : doc \in DocBlocks}

PathA == <<"a.c">>
PathB == <<"b.c">>
PathC == <<"c.c">>

FileGroup(name, files) == [name |-> name, files |-> files]

\* The file systems with the given files at the three paths under the root.
FileSystems(as, bs, cs) ==
    {[p \in {Join(Root, PathA), Join(Root, PathB), Join(Root, PathC)} |->
        IF p = Join(Root, PathA) THEN a
        ELSE IF p = Join(Root, PathB) THEN b ELSE c] :
     a \in as, b \in bs, c \in cs}

\* One group of two files, each any file of the model.
PairScenario ==
    [docfig : { << FileGroup("g1", <<PathA, PathB>>) >> },
     fs : FileSystems(SourceFiles \cup {Unreadable, Unparsable},
                      SourceFiles \cup {Unreadable, Unparsable},
                      {Unreadable})]

\* One group of three files.
TripleScenario ==
    [docfig : { << FileGroup("g1", <<PathA, PathB, PathC>>) >> },
     fs : FileSystems(PlainFiles \cup {Unreadable},
                      PlainFiles \cup {Unreadable},
                      PlainFiles \cup {Unreadable})]

\* Two groups with a file in common; the file of the second group only can
\* be read and parsed or not.
GroupsScenario ==
    [docfig : { << FileGroup("g1", <<PathA, PathB>>),
                   FileGroup("g2", <<PathC, PathA>>) >> },
     fs : FileSystems(SourceFiles, SourceFiles,
                      {Unreadable, Unparsable,
                       File(TRUE, TRUE, TextOf(<<Blank, CommentA, DeclF>>))})]

\* check has not been called.
CheckIdle ==
    /\ pc = "idle" /\ gi = 0 /\ position_maps = <<>> /\ mi = 0
    /\ pending = {} /\ mismatches = <<>> /\ result = NoResult
    /\ scanned = {} /\ run = 0 /\ previous = NoResult
    /\ docfig = <<>>

\* check is called.
CheckStart ==
    /\ pc = "index" /\ gi = 0 /\ position_maps = <<>> /\ mi = 0
    /\ pending = {} /\ mismatches = <<>> /\ result = NoResult
    /\ scanned = {} /\ run = 1 /\ previous = NoResult

LineIdle == lineSource = NoResult /\ lsOut = NoResult

IndexIdle ==
    /\ idxPaths = <<>> /\ idxUseQualifiers = FALSE
    /\ functions = NoResult /\ idxOut = NoResult

MaskIdle == maskSrc = NoResult /\ maskOut = NoResult

FormatIdle == fmtTarget = NoResult /\ fmtArgs = NoResult /\ fmtOut = NoResult
DocfigIdle == cfgFile = NoResult /\ cfgOut = NoResult
CreateIdle == disk = NoResult /\ diskBefore = NoResult /\ createOut = NoResult

UpdateIdle ==
    workspace = NoResult /\ workspaceBefore = NoResult /\ updateOut = NoResult
TreeIdle == treeIn = NoResult /\ treeOut = NoResult

\* None of the functions modelled on their own has been called.
UnitsIdle ==
    /\ MaskIdle
    /\ FormatIdle
    /\ DocfigIdle
    /\ CreateIdle
    /\ UpdateIdle
    /\ TreeIdle

\* check is called on a configuration whose files are any of the model's.
Init ==
    /\ \E sc \in PairScenario \cup TripleScenario \cup GroupsScenario :
        docfig = sc.docfig /\ fs = sc.fs
    /\ CheckStart
    /\ LineIdle
    /\ IndexIdle
    /\ UnitsIdle

Next == IndexGroup \/ CheckIdentity

Spec == Init /\ [][Next]_vars

\* The same, with check run up to MaxRuns times on the unchanged files of one
\* group of two files.
InitTwice ==
    /\ \E sc \in PairScenario : docfig = sc.docfig /\ fs = sc.fs
    /\ CheckStart
    /\ LineIdle
    /\ IndexIdle
    /\ UnitsIdle

NextTwice == IndexGroup \/ CheckIdentity \/ Rerun

SpecTwice == InitTwice /\ [][NextTwice]_vars

(***************************************************************************)
(* LineSource on its own                                                   *)
(***************************************************************************)
\* Most lines of a text handed to a LineSource.
MaxLineCount == 2

Padded == <<" ", "\t", "x", " ", "y", "\t", " ">>

\* The texts of up to MaxLineCount lines, and two whose last line has no line
\* ending or a "\r\n" one.
LineTexts ==
    {TextOf(lines) :
        lines \in UNION {[1..n -> {Padded, CommentA, Blank}] : n \in 0..MaxLineCount}}
    \cup {Padded, Padded \o <<CR, NL>> \o CommentA}

\* LineSource::trimmed_line_by_offset called with any offset of the model.
Lookup ==
    /\ lineSource # NoResult
    /\ \E offset \in (0 - MaxOffset)..MaxOffset :
        lsOut' = [offset |-> offset, out |-> TrimmedLineByOffset(lineSource, offset)]
    /\ UNCHANGED <<fs, docfig, lineSource>>
    /\ UNCHANGED <<checkVars, indexVars>>
    /\ UNCHANGED unitVars

InitLine ==
    /\ lineSource \in [src : LineTexts, init_row : 0..MaxLineCount]
    /\ lsOut = NoResult
    /\ fs = <<>>
    /\ CheckIdle
    /\ IndexIdle
    /\ UnitsIdle

SpecLine == InitLine /\ [][Lookup]_vars

(***************************************************************************)
(* find_function_positions on its own                                      *)
(***************************************************************************)
DeclG == <<"i", "n", "t", " ", "g", "(", ")", ";">>
DeclFInt == <<"i", "n", "t", " ", "f", "(", "i", "n", "t", ")", ";">>

\* The lines of the files handed to find_function_positions.
IndexLines == {DeclF, DefF, DeclG, DeclFInt}

\* Files of one or two of these lines, and a file that cannot be read.
IndexFiles ==
    {File(TRUE, TRUE, TextOf(lines)) :
        lines \in UNION {[1..n -> IndexLines] : n \in 1..MaxLineCount}}
    \cup {Unreadable}

\* find_function_positions called on the paths; `functions` keeps the map as
\* it stood before functions.retain.
FindPositions ==
    /\ idxOut = NoResult
    /\ idxPaths # <<>>
    /\ functions' = ExtractPaths(idxPaths, EmptyMap, idxUseQualifiers)
    /\ idxOut' = FindFunctionPositions(idxPaths, idxUseQualifiers)
    /\ UNCHANGED <<fs, docfig, idxPaths, idxUseQualifiers>>
    /\ UNCHANGED <<checkVars, lineVars>>
    /\ UNCHANGED unitVars

InitIndex ==
    /\ fs \in [{Join(Root, PathA), Join(Root, PathB)} -> IndexFiles]
    /\ idxPaths = <<Join(Root, PathA), Join(Root, PathB)>>
    /\ idxUseQualifiers \in BOOLEAN
    /\ functions = NoResult
    /\ idxOut = NoResult
    /\ CheckIdle
    /\ LineIdle
    /\ UnitsIdle

SpecIndex == InitIndex /\ [][FindPositions]_vars

(***************************************************************************)
(* Properties of check (docwen_check.rs)                                   *)
(***************************************************************************)
\* The number of lines of the file of a position.
LineCount(pos) == Len(Lines(fs[pos.path].src))

\* Whether the row `offset` away from a position lies inside its file.
InFile(pos, offset) ==
    pos.row + offset >= 0 /\ pos.row + offset < LineCount(pos)

\* The trimmed line `offset` away from a position, inside its file.
LineAt(pos, offset) == Trim(Lines(fs[pos.path].src)[pos.row + offset + 1])

\* Whether the occurrence has a comment line at the offset.
CommentAt(pos, offset) ==
    InFile(pos, offset) /\ IsCommentLine(LineAt(pos, offset))

\* The lines of the occurrences at the offset are not all equal while at
\* least one of them is a comment line (all of them inside their files).
Divergent(vec, offset) ==
    /\ \A i \in 1..Len(vec) : InFile(vec[i], offset)
    /\ \E i \in 1..Len(vec) : IsCommentLine(LineAt(vec[i], offset))
    /\ \E i \in 1..Len(vec) : LineAt(vec[i], offset) # LineAt(vec[1], offset)

\* All occurrences have the same comment line at the offset.
EqualComments(vec, offset) ==
    \A i \in 1..Len(vec) :
        /\ CommentAt(vec[i], offset)
        /\ LineAt(vec[i], offset) = LineAt(vec[1], offset)

\* The positions as format_mismatch prints them: paths relative to the
\* directory of docwen.toml.
Printed(vec) ==
    [i \in 1..Len(vec) |->
        [path |-> SubSeq(vec[i].path, Len(Root) + 1, Len(vec[i].path)),
         row |-> vec[i].row, column |-> vec[i].column]]

\* The files of all file groups of the configuration.
GroupFiles ==
    UNION {{Join(Root, docfig[g].files[i]) : i \in 1..Len(docfig[g].files)} :
           g \in 1..Len(docfig)}

\* Some file of some file group cannot be read or parsed.
SomeFileFails ==
    \E p \in GroupFiles : ~fs[p].readable \/ ~fs[p].parses

\* The identities check has to look at: (map, id) for every entry of every
\* position map.
Entries ==
    {[map |-> m, id |-> id] :
        m \in 1..Len(position_maps),
        id \in UNION {DOMAIN position_maps[k] : k \in 1..Len(position_maps)}}

\* The occurrences of an entry, <<>> when the map has no such identity.
Occurrences(e) ==
    IF e.id \in DOMAIN position_maps[e.map] THEN position_maps[e.map][e.id]
    ELSE <<>>

\* C1: for each identity with at least 2 occurrences in a file group, check
\* emits at most one mismatch, at the first offset (-1, -2, ...) at which the
\* trimmed lines are not all equal while one of them is a comment line, and
\* does not scan the identity beyond that offset.
C1_OneMismatchAtFirstDivergence ==
    /\ \A s \in scanned :
        /\ Len(Occurrences(s)) >= 2
        /\ Len(s.pushed) <= 1
        /\ Len(s.pushed) = 1 =>
            /\ s.pushed[1].offset < 0
            /\ s.offset = s.pushed[1].offset
            /\ Divergent(Occurrences(s), s.pushed[1].offset)
            /\ \A o \in (s.pushed[1].offset + 1)..(0 - 1) :
                    EqualComments(Occurrences(s), o)
        /\ Len(s.pushed) = 0 =>
            \A o \in s.offset..(0 - 1) : ~Divergent(Occurrences(s), o)
    /\ Len(mismatches) = Cardinality({s \in scanned : Len(s.pushed) = 1})

\* Two occurrences whose lines differ at offset -1 and again at offset -2,
\* and one mismatch, at offset -1.
C1_Witness ==
    \E s \in scanned :
        /\ Len(s.pushed) = 1
        /\ s.pushed[1].offset = 0 - 1
        /\ Divergent(Occurrences(s), 0 - 2)
        /\ Len(mismatches) = 1

\* The doc block of an occurrence: the comment lines above its row, from the
\* nearest one up to the first line that is no comment or the top of the file.
RECURSIVE DocBlockFrom(_, _)
DocBlockFrom(pos, offset) ==
    IF CommentAt(pos, offset)
    THEN <<LineAt(pos, offset)>> \o DocBlockFrom(pos, offset - 1)
    ELSE <<>>
DocBlock(pos) == DocBlockFrom(pos, 0 - 1)

\* All occurrences have the same doc block.
SameDocBlocks(vec) == \A i \in 1..Len(vec) : DocBlock(vec[i]) = DocBlock(vec[1])

\* check has returned, after it indexed all groups.
Returned == pc = "done" /\ Len(position_maps) = Len(docfig)

\* C2: if all occurrences of every identity have exactly the same doc block,
\* check returns successfully without a mismatch, also when the doc blocks
\* start on the first line of their files.
C2_IdenticalDocsNoMismatch ==
    (Returned /\ ~SomeFileFails /\ \A e \in Entries : SameDocBlocks(Occurrences(e)))
        => result = Ok(<<>>)

\* The comment run of one occurrence has ended at some offset (code, a blank
\* line or the top of the file) while another occurrence has a comment line
\* there, and all nearer offsets held equal comment lines.
Asymmetric(vec) ==
    \E o \in (0 - MaxDoc - 1)..(0 - 1) :
        /\ \E i \in 1..Len(vec) : ~CommentAt(vec[i], o)
        /\ \E i \in 1..Len(vec) : CommentAt(vec[i], o)
        /\ \A n \in (o + 1)..(0 - 1) : EqualComments(vec, n)

\* C3: doc blocks of different lengths are a divergence: check emits a
\* mismatch for an identity whose occurrences' comment runs end at different
\* offsets, be it by code, a blank line or the top of the file.
C3_AsymmetricBlocksMismatch ==
    (Returned /\ ~SomeFileFails) =>
        \A e \in Entries :
            Asymmetric(Occurrences(e)) =>
                /\ result.ok
                /\ \E k \in 1..Len(result.value) :
                        result.value[k].group = Printed(Occurrences(e))

\* C4: trimmed_line_by_offset never fails: it yields "" for a row below 0 or
\* at or beyond the number of lines, and the trimmed line for any other row.
C4_OutOfRangeIsEmpty ==
    lsOut # NoResult =>
        /\ lsOut.out.ok
        /\ lsOut.out.value =
            IF /\ lineSource.init_row + lsOut.offset >= 0
               /\ lineSource.init_row + lsOut.offset < Len(Lines(lineSource.src))
            THEN Trim(Lines(lineSource.src)[lineSource.init_row + lsOut.offset + 1])
            ELSE <<>>

\* C5: a mismatch emitted for an identity carries all positions of the
\* identity, in the order of its position list, whichever of them differ.
C5_MismatchCarriesAllPositions ==
    /\ \A s \in scanned :
        Len(s.pushed) >= 1 =>
            \E k \in 1..Len(mismatches) :
                /\ mismatches[k].line = s.pushed[1].line
                /\ mismatches[k].group = Printed(Occurrences(s))
                /\ Len(mismatches[k].group) >= 2
                /\ s.id.name = <<"f">> =>
                    [i \in 1..Len(mismatches[k].group) |-> mismatches[k].group[i].path]
                        = docfig[s.map].files
    /\ \A k \in 1..Len(mismatches) :
        \E s \in scanned :
            Len(s.pushed) >= 1 /\ mismatches[k].group = Printed(Occurrences(s))

\* Three files, the first two with the same doc line and the third with
\* another one: a mismatch with three positions.
C5_Witness ==
    /\ Len(mismatches) = 1
    /\ Len(mismatches[1].group) = 3
    /\ fs[Join(Root, PathA)] = fs[Join(Root, PathB)]
    /\ fs[Join(Root, PathC)] # fs[Join(Root, PathA)]
    /\ pc = "done"

\* C6: if reading or parsing a file of a file group fails, check returns an
\* error and no mismatch list, whatever the other files and groups hold.
C6_FailFastNoPartialResult ==
    SomeFileFails =>
        /\ result \in {NoResult, Err}
        /\ pc = "done" => result = Err
        /\ mismatches = <<>>

\* The file of the second group fails while the first group, indexed, holds
\* diverging docs for f: check returned the error.
C6_Witness ==
    /\ pc = "done"
    /\ result = Err
    /\ Len(docfig) = 2
    /\ Len(position_maps) = 1
    /\ \E id \in DOMAIN position_maps[1] : Divergent(position_maps[1][id], 0 - 1)
    /\ fs[Join(Root, PathA)].readable /\ fs[Join(Root, PathB)].readable
    /\ ~fs[Join(Root, PathC)].parses

\* C7: two runs of check on the same unchanged configuration and files
\* return identical mismatch lists, the same mismatches in the same order,
\* also when one file group holds several mismatching identities.
C7_RunsReturnSameList ==
    (run = 2 /\ pc = "done" /\ previous.ok /\ result.ok) => result = previous

(***************************************************************************)
(* Properties of find_function_positions (c_parse.rs)                      *)
(***************************************************************************)
\* The identity a line of IndexLines declares or defines.
LineId(line) ==
    IF line = DeclFInt THEN FunctionID(<<"f">>, <<"(", "i", "n", "t", ")">>)
    ELSE IF line = DeclG THEN FunctionID(<<"g">>, <<"(", ")">>)
    ELSE FunctionID(<<"f">>, <<"(", ")">>)

LineIds == {LineId(line) : line \in IndexLines}

\* The rows of the k-th input file that hold an occurrence of the identity.
RowsOf(id, k) ==
    {r \in 0..(Len(Lines(fs[idxPaths[k]].src)) - 1) :
        LineId(Lines(fs[idxPaths[k]].src)[r + 1]) = id}

\* Those that hold a definition of it.
DefinitionRowsOf(id, k) ==
    {r \in RowsOf(id, k) : Lines(fs[idxPaths[k]].src)[r + 1] = DefF}

\* The occurrences of the identity in the input files: (file, row) pairs.
OccurrencesOf(id) ==
    UNION {{<<k, r>> : r \in RowsOf(id, k)} : k \in 1..Len(idxPaths)}

\* The input files the identity occurs in.
FilesOf(id) == {k \in 1..Len(idxPaths) : RowsOf(id, k) # {}}

\* find_function_positions returned a map.
Indexed == idxOut # NoResult /\ idxOut.ok

\* C8: every identity in the map find_function_positions returns has at least
\* 2 positions, and every identity extracted at least twice over the input
\* paths is in the map with all of its positions.
C8_RetainedHaveTwoPositions ==
    Indexed =>
        /\ \A id \in DOMAIN idxOut.value : Len(idxOut.value[id]) >= 2
        /\ \A id \in DOMAIN functions.value :
            Len(functions.value[id]) >= 2 =>
                /\ id \in DOMAIN idxOut.value
                /\ idxOut.value[id] = functions.value[id]

\* An identity extracted three times is in the map, one extracted once is
\* not.
C8_Witness ==
    /\ Indexed
    /\ \E id \in DOMAIN idxOut.value : Len(idxOut.value[id]) = 3
    /\ \E id \in DOMAIN functions.value : Len(functions.value[id]) = 1

\* C9, as found in the code: an identity with exactly one occurrence over all
\* input files never appears in the map find_function_positions returns; an
\* identity with two or more occurrences appears, also when all of them are
\* in one file.
C9_SingleOccurrenceNeverIndexed ==
    Indexed =>
        \A id \in LineIds :
            /\ Cardinality(OccurrencesOf(id)) = 1 => id \notin DOMAIN idxOut.value
            /\ Cardinality(OccurrencesOf(id)) >= 2 => id \in DOMAIN idxOut.value

\* An identity that occurs twice in one file and nowhere else is in the map,
\* and one that occurs once is not.
C9_Witness ==
    /\ Indexed
    /\ \E id \in DOMAIN idxOut.value :
        Cardinality(FilesOf(id)) = 1 /\ Cardinality(OccurrencesOf(id)) = 2
    /\ \E id \in LineIds :
        Cardinality(OccurrencesOf(id)) = 1 /\ id \notin DOMAIN idxOut.value

\* C9, as stated: an identity that occurs in exactly one of the input files
\* never appears in the map, whatever the number of its occurrences in that
\* file.
C9_OneFileNeverIndexed ==
    Indexed =>
        \A id \in LineIds :
            Cardinality(FilesOf(id)) = 1 => id \notin DOMAIN idxOut.value

\* The identity is declared once in file k and defined once in file l, and
\* occurs nowhere else.
DeclaredAndDefined(id, k, l) ==
    /\ Cardinality(RowsOf(id, k)) = 1 /\ DefinitionRowsOf(id, k) = {}
    /\ Cardinality(RowsOf(id, l)) = 1 /\ Cardinality(DefinitionRowsOf(id, l)) = 1
    /\ FilesOf(id) = {k, l}

\* C10: a declaration in one file and a definition in another, with the same
\* name and parameter text, give one identity with exactly 2 positions: a
\* definition contributes one position, the declarator inside it none.
C10_DeclarationAndDefinitionMerge ==
    Indexed =>
        /\ \A id \in LineIds :
            \A k, l \in 1..Len(idxPaths) :
                (k # l /\ DeclaredAndDefined(id, k, l)) =>
                    /\ id \in DOMAIN idxOut.value
                    /\ Len(idxOut.value[id]) = 2
        /\ \A id \in DOMAIN functions.value :
            Len(functions.value[id]) = Cardinality(OccurrencesOf(id))

\* f() is declared in the first file and defined in the second: two
\* positions, the definition's at column 0.
C10_Witness ==
    /\ Indexed
    /\ \E id \in DOMAIN idxOut.value :
        /\ DeclaredAndDefined(id, 1, 2)
        /\ Len(idxOut.value[id]) = 2
        /\ idxOut.value[id][1].path = idxPaths[1]
        /\ idxOut.value[id][2].path = idxPaths[2]
        /\ idxOut.value[id][2].column = 0

(***************************************************************************)
(* find_function_positions on qualified names and parameter texts          *)
(***************************************************************************)
DeclAF == <<"i", "n", "t", " ", "A", ":", ":", "f", "(", ")", ";">>
DeclBF == <<"i", "n", "t", " ", "B", ":", ":", "f", "(", ")", ";">>
DeclCDF ==
    <<"i", "n", "t", " ", "C", ":", ":", "D", ":", ":", "f", "(", ")", ";">>
InAF ==
    <<"n", "a", "m", "e", "s", "p", "a", "c", "e", " ", "A", " ", "{", " ",
      "i", "n", "t", " ", "f", "(", ")", ";", " ", "}">>
InBF ==
    <<"n", "a", "m", "e", "s", "p", "a", "c", "e", " ", "B", " ", "{", " ",
      "i", "n", "t", " ", "f", "(", ")", ";", " ", "}">>
DeclFX == <<"i", "n", "t", " ", "f", "(", "i", "n", "t", " ", "x", ")", ";">>
DeclFX0 ==
    <<"i", "n", "t", " ", "f", "(", "i", "n", "t", " ", "x", " ", "=", " ",
      "0", ")", ";">>

\* The lines of the files: f() bare, with out-of-line qualifiers, inside
\* namespaces, and with parameter texts that differ by a default value; g().
QualifierLines ==
    {DeclF, DeclG, DeclAF, DeclBF, DeclCDF, InAF, InBF, DeclFX, DeclFX0}

\* Files of two of these lines.
QualifierFiles ==
    {File(TRUE, TRUE, TextOf(<<first, second>>)) :
        first \in QualifierLines, second \in QualifierLines}

InitQualifiers ==
    /\ fs \in [{Join(Root, PathA), Join(Root, PathB)} -> QualifierFiles]
    /\ idxPaths = <<Join(Root, PathA), Join(Root, PathB)>>
    /\ idxUseQualifiers \in BOOLEAN
    /\ functions = NoResult
    /\ idxOut = NoResult
    /\ CheckIdle
    /\ LineIdle
    /\ UnitsIdle

SpecQualifiers == InitQualifiers /\ [][FindPositions]_vars

\* The occurrences in the input files: (file, row) pairs.
AllOccurrences ==
    UNION {{<<k, r>> : r \in 0..(Len(Lines(fs[idxPaths[k]].src)) - 1)} :
           k \in 1..Len(idxPaths)}

\* The line of an occurrence.
LineOf(o) == Lines(fs[idxPaths[o[1]]].src)[o[2] + 1]

\* The qualified name of the function a line of QualifierLines declares, its
\* last segment, and its parameter text as written.
QualifiedNameOf(line) ==
    IF line \in {DeclAF, InAF} THEN <<"A", ":", ":", "f">>
    ELSE IF line \in {DeclBF, InBF} THEN <<"B", ":", ":", "f">>
    ELSE IF line = DeclCDF THEN <<"C", ":", ":", "D", ":", ":", "f">>
    ELSE IF line = DeclG THEN <<"g">>
    ELSE <<"f">>
BareNameOf(line) == IF line = DeclG THEN <<"g">> ELSE <<"f">>
ParamsOf(line) ==
    IF line = DeclFX THEN <<"(", "i", "n", "t", " ", "x", ")">>
    ELSE IF line = DeclFX0
    THEN <<"(", "i", "n", "t", " ", "x", " ", "=", " ", "0", ")">>
    ELSE <<"(", ")">>

\* The entries of the map before functions.retain that hold the occurrence.
EntriesOf(o) ==
    {id \in DOMAIN functions.value :
        \E i \in 1..Len(functions.value[id]) :
            /\ functions.value[id][i].path = idxPaths[o[1]]
            /\ functions.value[id][i].row = o[2]}

\* C11: with use_qualifiers = true, two functions with the same bare name and
\* parameter text but different qualified names (by enclosing namespaces or
\* by out-of-line qualifiers) have different identities and share no entry.
C11_QualifiedNamesNeverMerged ==
    (Indexed /\ idxUseQualifiers) =>
        \A o1, o2 \in AllOccurrences :
            (/\ BareNameOf(LineOf(o1)) = BareNameOf(LineOf(o2))
             /\ ParamsOf(LineOf(o1)) = ParamsOf(LineOf(o2))
             /\ QualifiedNameOf(LineOf(o1)) # QualifiedNameOf(LineOf(o2)))
            => /\ EntriesOf(o1) \cap EntriesOf(o2) = {}
               /\ \A id \in EntriesOf(o1) : id.name = QualifiedNameOf(LineOf(o1))

\* f() of namespace A and A::f in one file, f() of namespace B and B::f in
\* the other: two entries of two positions.
C11_Witness ==
    /\ Indexed /\ idxUseQualifiers
    /\ Lines(fs[idxPaths[1]].src) = <<InAF, DeclBF>>
    /\ Lines(fs[idxPaths[2]].src) = <<InBF, DeclAF>>
    /\ Cardinality(DOMAIN idxOut.value) = 2
    /\ \A id \in DOMAIN idxOut.value : Len(idxOut.value[id]) = 2

\* C12: with use_qualifiers = false the name of the identity is the part of
\* the declarator name after its last `::` and enclosing scopes add nothing:
\* all functions with that final segment and equal parameter text are one
\* identity.
C12_UnqualifiedMergesByLastSegment ==
    (Indexed /\ ~idxUseQualifiers) =>
        \A o1, o2 \in AllOccurrences :
            /\ \A id \in EntriesOf(o1) : id.name = BareNameOf(LineOf(o1))
            /\ (/\ BareNameOf(LineOf(o1)) = BareNameOf(LineOf(o2))
                /\ ParamsOf(LineOf(o1)) = ParamsOf(LineOf(o2)))
               => (EntriesOf(o1) = EntriesOf(o2) /\ EntriesOf(o1) # {})

\* A::f, B::f, C::D::f and f: one entry with 4 positions.
C12_Witness ==
    /\ Indexed /\ ~idxUseQualifiers
    /\ Lines(fs[idxPaths[1]].src) = <<DeclAF, DeclBF>>
    /\ Lines(fs[idxPaths[2]].src) = <<DeclCDF, DeclF>>
    /\ \E id \in DOMAIN idxOut.value : Len(idxOut.value[id]) = 4

\* The name string of the identity of a line.
NameStringOf(line) ==
    IF idxUseQualifiers THEN QualifiedNameOf(line) ELSE BareNameOf(line)

\* C13: two occurrences belong to the same identity if and only if their name
\* strings are equal and their parameter texts are equal as written:
\* `(int x)` and `(int x = 0)` are different identities.
C13_IdentityIsExactText ==
    Indexed =>
        \A o1, o2 \in AllOccurrences :
            /\ Cardinality(EntriesOf(o1)) = 1
            /\ (EntriesOf(o1) = EntriesOf(o2))
               <=> (/\ NameStringOf(LineOf(o1)) = NameStringOf(LineOf(o2))
                    /\ ParamsOf(LineOf(o1)) = ParamsOf(LineOf(o2)))

\* f(int x) and f(int x = 0) in one file, f(int x = 0) again in the other:
\* the map holds f(int x = 0) with two positions and nothing else.
C13_Witness ==
    /\ Indexed
    /\ Lines(fs[idxPaths[1]].src) = <<DeclFX, DeclFX0>>
    /\ Lines(fs[idxPaths[2]].src) = <<DeclFX0, DeclG>>
    /\ Cardinality(DOMAIN idxOut.value) = 1
    /\ \A id \in DOMAIN idxOut.value :
        Len(idxOut.value[id]) = 2 /\ id.params = ParamsOf(DeclFX0)

(***************************************************************************)
(* mask_preprocessor on its own                                            *)
(***************************************************************************)
\* Most lines of a text handed to mask_preprocessor.
MaxMaskLines == 3

\* Line bodies: a directive, a directive that ends in a backslash, an
\* indented directive, code, code that ends in a backslash, an empty body,
\* and code with a carriage return inside the line.
MaskBodies ==
    {<<"#">>, <<"#", "\\">>, <<" ", "#">>, <<"x">>, <<"x", "\\">>, <<>>,
     <<"x", CR, "#">>}

\* Line endings: "\n", "\r\n", and none.
MaskEols == {<<NL>>, <<CR, NL>>, <<>>}

MaskLines == {body \o eol : body \in MaskBodies, eol \in MaskEols}

\* The texts of up to MaxMaskLines of these lines.
MaskTexts ==
    {Concat(lines) : lines \in UNION {[1..n -> MaskLines] : n \in 0..MaxMaskLines}}

\* mask_preprocessor called on the text.
Mask ==
    /\ maskOut = NoResult
    /\ maskOut' = [text |-> MaskPreprocessor(maskSrc)]
    /\ UNCHANGED <<fs, docfig, maskSrc>>
    /\ UNCHANGED <<checkVars, lineVars, indexVars>>
    /\ UNCHANGED <<formatVars, docfigVars, createVars, updateVars, treeVars>>

InitMask ==
    /\ maskSrc \in MaskTexts
    /\ maskOut = NoResult
    /\ fs = <<>>
    /\ CheckIdle
    /\ LineIdle
    /\ IndexIdle
    /\ FormatIdle
    /\ DocfigIdle
    /\ CreateIdle
    /\ UpdateIdle
    /\ TreeIdle

SpecMask == InitMask /\ [][Mask]_vars

\* The places where the lines of the text start: the first character, and
\* every character behind a "\n".
LineStarts ==
    {p \in 1..Len(maskSrc) : p = 1 \/ maskSrc[p - 1] = NL}

\* The place of the "\n" that ends the line starting at p, one behind the
\* text when the line has none.
LineEnd(p) ==
    IF \E j \in p..Len(maskSrc) : maskSrc[j] = NL
    THEN CHOOSE j \in p..Len(maskSrc) :
            maskSrc[j] = NL /\ \A i \in p..(j - 1) : maskSrc[i] # NL
    ELSE Len(maskSrc) + 1

\* The last place of the body of the line starting at p: what stands before
\* its "\n" or "\r\n".
BodyEnd(p) ==
    IF /\ LineEnd(p) <= Len(maskSrc)
       /\ LineEnd(p) > p
       /\ maskSrc[LineEnd(p) - 1] = CR
    THEN LineEnd(p) - 2
    ELSE LineEnd(p) - 1

\* The line starting at p is a preprocessor line: its first character that is
\* no whitespace is `#`.
IsDirective(p) ==
    \E i \in p..BodyEnd(p) :
        maskSrc[i] = "#" /\ \A j \in p..(i - 1) : IsWhitespace(maskSrc[j])

\* The body of the line starting at p ends in a backslash.
EndsInBackslash(p) == BodyEnd(p) >= p /\ maskSrc[BodyEnd(p)] = "\\"

\* The start of the line before the one starting at p > 1.
PreviousStart(p) ==
    CHOOSE q \in LineStarts : q < p /\ \A r \in LineStarts : r < p => r <= q

\* The line starting at p has to be masked: it is a preprocessor line, or the
\* line before it has to be masked and ends in a backslash.
RECURSIVE ToBeMasked(_)
ToBeMasked(p) ==
    \/ IsDirective(p)
    \/ /\ p > 1
       /\ EndsInBackslash(PreviousStart(p))
       /\ ToBeMasked(PreviousStart(p))

\* C14: mask_preprocessor keeps the length of every text, and every line that
\* is neither a preprocessor line nor a continuation of a masked line stands
\* unchanged at the same place in the output.
C14_MaskKeepsLengthAndOtherLines ==
    maskOut # NoResult =>
        /\ Len(maskOut.text) = Len(maskSrc)
        /\ \A p \in LineStarts :
            ~ToBeMasked(p) =>
                \A i \in p..BodyEnd(p) : maskOut.text[i] = maskSrc[i]

\* C15: mask_preprocessor leaves every line terminator as it is: each "\n"
\* and each "\r\n" of the input stands at the same place in the output, on
\* masked lines as on the others.
C15_MaskKeepsLineTerminators ==
    maskOut # NoResult =>
        /\ Len(maskOut.text) = Len(maskSrc)
        /\ \A p \in LineStarts :
            \A i \in (BodyEnd(p) + 1)..LineEnd(p) :
                i <= Len(maskSrc) => maskOut.text[i] = maskSrc[i]

\* C16: a masked line whose body ends in a backslash makes the next line
\* masked whatever it holds, over any number of such lines, with "\n" and
\* with "\r\n" line endings.
C16_ContinuationLinesMasked ==
    maskOut # NoResult =>
        /\ Len(maskOut.text) = Len(maskSrc)
        /\ \A p \in LineStarts :
            (/\ p > 1
             /\ EndsInBackslash(PreviousStart(p))
             /\ ToBeMasked(PreviousStart(p)))
            => \A i \in p..BodyEnd(p) : maskOut.text[i] = " "

(***************************************************************************)
(* check on doc lines that differ in whitespace or letter case             *)
(***************************************************************************)
PaddedA == <<" ", "\t", "/", "/", " ", "a", "\t", " ">>
UpperA == <<"/", "/", " ", "A">>
WideA == <<"/", "/", " ", " ", "a">>

\* `// a` as it is, with whitespace around it, in upper case, and with more
\* whitespace inside.
TrimDocLines == {CommentA, PaddedA, UpperA, WideA}

\* Files that declare f below a blank line and a doc block of one or two of
\* these lines.
TrimFiles ==
    {File(TRUE, TRUE, TextOf(<<Blank>> \o doc \o <<DeclF>>)) :
        doc \in [{1} -> TrimDocLines] \cup [{1, 2} -> TrimDocLines]}

\* One group of two such files.
TrimScenario ==
    [docfig : { << FileGroup("g1", <<PathA, PathB>>) >> },
     fs : FileSystems(TrimFiles, TrimFiles, {Unreadable})]

InitTrim ==
    /\ \E sc \in TrimScenario : docfig = sc.docfig /\ fs = sc.fs
    /\ CheckStart
    /\ LineIdle
    /\ IndexIdle
    /\ UnitsIdle

SpecTrim == InitTrim /\ [][Next]_vars

\* A line of TrimDocLines without the whitespace around it.
CoreOf(line) == IF line = PaddedA THEN CommentA ELSE line

\* The doc block of the file at a path as written, nearest line first: the
\* lines between the blank first line and the declaration.
WrittenDoc(path) ==
    [i \in 1..(Len(Lines(fs[Join(Root, path)].src)) - 2) |->
        Lines(fs[Join(Root, path)].src)[Len(Lines(fs[Join(Root, path)].src)) - i]]

\* The same, each line without the whitespace around it.
CoreDoc(path) == [i \in 1..Len(WrittenDoc(path)) |-> CoreOf(WrittenDoc(path)[i])]

\* C17: doc lines are compared after trimming the whitespace around them
\* only: occurrences whose doc lines differ in surrounding whitespace give no
\* mismatch, lines that differ in letter case or in inner whitespace give one.
C17_ComparedAfterTrimOnly ==
    pc = "done" =>
        /\ result.ok
        /\ (result.value = <<>>) <=> (CoreDoc(PathA) = CoreDoc(PathB))
        /\ Len(result.value) <= 1
        /\ \A k \in 1..Len(result.value) :
            result.value[k].line \in {CoreOf(line) : line \in TrimDocLines} \cup {Blank}

\* The doc lines differ as written, in the whitespace around them only, and
\* check returned no mismatch.
C17_Witness ==
    /\ pc = "done"
    /\ result = Ok(<<>>)
    /\ WrittenDoc(PathA) = <<CommentA, PaddedA>>
    /\ WrittenDoc(PathB) = <<PaddedA, CommentA>>

(***************************************************************************)
(* format_mismatch on its own                                              *)
(*                                                                         *)
(* In the strings built here a path component is one element, as a         *)
(* character is.                                                           *)
(***************************************************************************)
\* Most positions of a mismatch.
MaxPositions == 2

\* Path::is_absolute
IsAbsolute(path) == path # <<>> /\ path[1] = "/"

\* toml_manager::get_absolute_root for a docwen.toml that has a parent
\* directory: the target when it is absolute, else the target under the
\* directory of docwen.toml.
GetAbsoluteRoot(toml_path, target) ==
    IF IsAbsolute(target) THEN target ELSE Join(ParentOf(toml_path), target)

Digits == <<"0", "1", "2", "3", "4", "5", "6", "7", "8", "9">>

RECURSIVE ToDecimal(_)
\* Display of a usize.
ToDecimal(n) ==
    IF n < Len(Digits) THEN <<Digits[n + 1]>>
    ELSE ToDecimal(n \div Len(Digits)) \o <<Digits[(n % Len(Digits)) + 1]>>

RECURSIVE JoinStrings(_, _)
\* [String]::join(sep)
JoinStrings(parts, sep) ==
    IF parts = <<>> THEN <<>>
    ELSE IF Len(parts) = 1 THEN Head(parts)
    ELSE Head(parts) \o sep \o JoinStrings(Tail(parts), sep)

\* The text of a path: its components with "/" between them, behind the "/"
\* of the root directory when it is absolute.
PathText(path) ==
    IF IsAbsolute(path)
    THEN <<"/">> \o JoinStrings([i \in 1..(Len(path) - 1) |-> <<path[i + 1]>>], <<"/">>)
    ELSE JoinStrings([i \in 1..Len(path) |-> <<path[i]>>], <<"/">>)

\* format!("{:?}:{}:{}", path, row, column) for a path without characters
\* that Debug escapes: the path in double quotes, the row, the column.
PositionString(p) ==
    <<"\"">> \o PathText(p.path) \o <<"\"", ":">> \o ToDecimal(p.row)
    \o <<":">> \o ToDecimal(p.column)

\* format!("\"{}\"\n-> [{}]", match_str, group_str) with the positions of the
\* mismatch joined by ", ".
MismatchString(m) ==
    <<"\"">> \o m.line \o <<"\"", NL, "-", ">", " ", "[">>
    \o JoinStrings([i \in 1..Len(m.group) |-> PositionString(m.group[i])],
                   <<",", " ">>)
    \o <<"]">>

\* settings.target: the directory of docwen.toml itself, a directory under
\* it, and an absolute directory elsewhere.
Targets == {<<>>, <<"src">>, <<"/", "srv">>}

\* Where docwen.toml lies.
TomlPaths == {TomlPath, <<"/", "home", "docwen.toml">>}

\* The positions check builds for files of the configuration under a root,
\* and one of a file that lies elsewhere.
PositionsUnder(root) ==
    {FilePosition(path, row, 0) :
        path \in {Join(root, <<"a.c">>), Join(root, <<"inc", "a.h">>),
                  <<"/", "tmp", "x.c">>},
        row \in {3, 12}}

\* format_mismatch called as check calls it.
Format ==
    /\ fmtOut = NoResult
    /\ fmtOut' = [text |-> MismatchString(FormatMismatch(fmtArgs.match_str,
                                                         fmtArgs.vec,
                                                         fmtArgs.toml_path))]
    /\ UNCHANGED <<fs, docfig, fmtTarget, fmtArgs>>
    /\ UNCHANGED <<checkVars, lineVars, indexVars>>
    /\ UNCHANGED <<maskVars, docfigVars, createVars, updateVars, treeVars>>

InitFormat ==
    /\ fmtTarget \in Targets
    /\ \E toml_path \in TomlPaths :
        fmtArgs \in [match_str : {CommentA},
                     toml_path : {toml_path},
                     vec : UNION {[1..n -> PositionsUnder(
                                      GetAbsoluteRoot(toml_path, fmtTarget))] :
                                  n \in 0..MaxPositions}]
    /\ fmtOut = NoResult
    /\ fs = <<>>
    /\ CheckIdle
    /\ LineIdle
    /\ IndexIdle
    /\ MaskIdle
    /\ DocfigIdle
    /\ CreateIdle
    /\ UpdateIdle
    /\ TreeIdle

SpecFormat == InitFormat /\ [][Format]_vars

\* The path relative to a root when it lies under it, else as given.
RelativeTo(path, root) ==
    IF Len(path) > Len(root) /\ SubSeq(path, 1, Len(root)) = root
    THEN SubSeq(path, Len(root) + 1, Len(path))
    ELSE path

\* The positions of the call with their paths relative to the configured
\* root.
RootRelative ==
    [i \in 1..Len(fmtArgs.vec) |->
        [fmtArgs.vec[i] EXCEPT
            !.path = RelativeTo(@, GetAbsoluteRoot(fmtArgs.toml_path, fmtTarget))]]

\* C18: a mismatch string is the quoted line, `-> [`, the positions joined by
\* commas, and `]`; each position is path:row:column with the path relative
\* to the configured root when the file lies under it, as given otherwise.
C18_PathsRelativeToRoot ==
    fmtOut # NoResult =>
        fmtOut.text =
            <<"\"">> \o fmtArgs.match_str \o <<"\"", NL, "-", ">", " ", "[">>
            \o JoinStrings([i \in 1..Len(RootRelative) |->
                               PositionString(RootRelative[i])], <<",", " ">>)
            \o <<"]">>

(***************************************************************************)
(* Docfig::from_file on its own                                            *)
(*                                                                         *)
(* The text of a docwen.toml is the sequence of its tables; a table has a  *)
(* header, and a [[filegroup]] table a name and files.                     *)
(***************************************************************************)
\* Most tables of a docwen.toml.
MaxTables == 3

Table(header, name, files) == [header |-> header, name |-> name, files |-> files]

\* [settings], [[filegroup]] with a name and files, and a table Docfig does
\* not know.
SettingsTable == Table("settings", <<>>, <<>>)
GroupTables ==
    {Table("filegroup", name, files) :
        name \in {<<"a">>, <<"b">>, <<"A">>},
        files \in {<<<<"a.h">>, <<"a.c">>>>, <<<<"b.hpp">>, <<"b.cc">>>>}}
UnknownTable == Table("other", <<>>, <<>>)

\* The files from_file is called on: one that cannot be read, and the texts
\* of up to MaxTables tables.
ConfigFiles ==
    {[readable |-> FALSE, raw |-> <<>>]} \cup
    {[readable |-> TRUE, raw |-> raw] :
        raw \in UNION {[1..n -> {SettingsTable, UnknownTable} \cup GroupTables] :
                       n \in 0..MaxTables}}

\* fs::read_to_string
ReadRaw(file) == IF file.readable THEN Ok(file.raw) ELSE Err

\* The tables of a text with the given header, in the order of the text.
TablesOf(raw, header) == SelectSeq(raw, LAMBDA t : t.header = header)

\* toml::from_str::<Docfig>: an error on a table Docfig does not know
\* (deny_unknown_fields) and unless there is exactly one [settings]; else the
\* Docfig with the [[filegroup]] tables as its file_groups, in their order.
FromStr(raw) ==
    IF \/ \E i \in 1..Len(raw) : raw[i].header \notin {"settings", "filegroup"}
       \/ Len(TablesOf(raw, "settings")) # 1
    THEN Err
    ELSE Ok([settings |-> "settings",
             file_groups |->
                [i \in 1..Len(TablesOf(raw, "filegroup")) |->
                    FileGroup(TablesOf(raw, "filegroup")[i].name,
                              TablesOf(raw, "filegroup")[i].files)]])

\* A validation that accepts every list of file groups.
AcceptAll(file_groups) == Ok(<<>>)

RECURSIVE ValidateFrom(_, _, _)
\* The loop of validate from the i-th file group on, with the names seen:
\* an error at the first name that seen.insert finds present.
ValidateFrom(file_groups, i, seen) ==
    IF i > Len(file_groups) THEN Ok(<<>>)
    ELSE IF file_groups[i].name \in seen THEN Err
    ELSE ValidateFrom(file_groups, i + 1, seen \cup {file_groups[i].name})

\* Docfig::validate
Validate(file_groups) == ValidateFrom(file_groups, 1, {})

\* from_file behind the text that was read.
FromRaw(raw) ==
    IF ~FromStr(raw).ok THEN Err
    ELSE IF ~Validate(FromStr(raw).value.file_groups).ok THEN Err
    ELSE Ok(FromStr(raw).value)

\* Docfig::from_file
FromFile(file) ==
    IF ~ReadRaw(file).ok THEN Err ELSE FromRaw(ReadRaw(file).value)

\* Docfig::from_file called on the file.
LoadDocfig ==
    /\ cfgOut = NoResult
    /\ cfgOut' = FromFile(cfgFile)
    /\ UNCHANGED <<fs, docfig, cfgFile>>
    /\ UNCHANGED <<checkVars, lineVars, indexVars>>
    /\ UNCHANGED <<maskVars, formatVars, createVars, updateVars, treeVars>>

InitDocfig ==
    /\ cfgFile \in ConfigFiles
    /\ cfgOut = NoResult
    /\ fs = <<>>
    /\ CheckIdle
    /\ LineIdle
    /\ IndexIdle
    /\ MaskIdle
    /\ FormatIdle
    /\ CreateIdle
    /\ UpdateIdle
    /\ TreeIdle

SpecDocfig == InitDocfig /\ [][LoadDocfig]_vars

\* Two [[filegroup]] tables of the file have the same name.
DuplicateGroupName ==
    \E i, j \in 1..Len(cfgFile.raw) :
        /\ i # j
        /\ cfgFile.raw[i].header = "filegroup"
        /\ cfgFile.raw[j].header = "filegroup"
        /\ cfgFile.raw[i].name = cfgFile.raw[j].name

\* C19: from_file returns an error when two file groups of the configuration
\* have the same name, and the file groups of every Docfig it returns have
\* pairwise distinct names.
C19_DuplicateGroupNameFails ==
    cfgOut # NoResult =>
        /\ DuplicateGroupName => ~cfgOut.ok
        /\ cfgOut.ok =>
            \A i, j \in 1..Len(cfgOut.value.file_groups) :
                i # j => cfgOut.value.file_groups[i].name
                            # cfgOut.value.file_groups[j].name

\* from_file has failed on a file that can be read, holds one [settings] and
\* no unknown table, and names two file groups alike.
C19_Witness ==
    /\ cfgOut # NoResult
    /\ ~cfgOut.ok
    /\ cfgFile.readable
    /\ FromStr(cfgFile.raw).ok
    /\ DuplicateGroupName

(***************************************************************************)
(* create_default on its own                                               *)
(*                                                                         *)
(* A disk is its entries by path: directories, which may refuse new        *)
(* entries, and files with their content as a sequence of lines.  The      *)
(* empty path is the working directory.                                    *)
(***************************************************************************)
\* toml_manager::DEFAULT_TOML, line by line.
DefaultToml ==
    <<"[settings]",
      "target = \"src\"",
      "match_extensions = [\"h\", \"c\", \"hpp\", \"cc\", \"cpp\"]",
      "mode = \"MATCH_FUNCTION_DOCS\"",
      "ignore = []">>

DiskDir(writable) == [kind |-> "dir", writable |-> writable, content |-> <<>>]
DiskFile(content) == [kind |-> "file", writable |-> TRUE, content |-> content]

Exists(d, path) == path \in DOMAIN d.entries
IsDir(d, path) == Exists(d, path) /\ d.entries[path].kind = "dir"

\* The disk with the entry at the path.
WithEntry(d, path, entry) ==
    [entries |-> [p \in DOMAIN d.entries \cup {path} |->
                    IF p = path THEN entry ELSE d.entries[p]]]

\* OpenOptions::new().write(true).create(true).truncate(true).open(path): an
\* open that empties a file that is there.
OpenCreate(d, path) ==
    IF path = <<>> \/ IsDir(d, path) THEN Err
    ELSE IF ~IsDir(d, ParentOf(path)) THEN Err
    ELSE IF ~Exists(d, path) /\ ~d.entries[ParentOf(path)].writable THEN Err
    ELSE Ok(WithEntry(d, path, DiskFile(<<>>)))

\* OpenOptions::new().write(true).create_new(true).open(path): an error when
\* something is at the path, when its parent is no directory, and when the
\* parent takes no new entry; else the disk with a new empty file.
OpenCreateNew(d, path) ==
    IF path = <<>> \/ Exists(d, path) THEN Err
    ELSE IF ~IsDir(d, ParentOf(path)) THEN Err
    ELSE IF ~d.entries[ParentOf(path)].writable THEN Err
    ELSE Ok(WithEntry(d, path, DiskFile(<<>>)))

\* file.write_all(buf) that gets `written` lines of buf to the file: Ok when
\* these are all of buf, else an error with what was written left in the
\* file.
WriteAll(d, path, buf, written) ==
    [ok |-> written = Len(buf),
     disk |-> WithEntry(d, path, DiskFile(SubSeq(buf, 1, written)))]

\* create_default: its result and the disk it leaves.
CreateDefault(d, path, written) ==
    IF ~OpenCreateNew(d, path).ok THEN [ok |-> FALSE, disk |-> d]
    ELSE WriteAll(OpenCreateNew(d, path).value, path, DefaultToml, written)

WsPath == <<"ws">>
SubPath == <<"ws", "sub">>
LockedPath == <<"ro">>
TomlName == <<"docwen.toml">>

\* What may be at a path where create_default is asked to write: nothing,
\* a file with something else, with nothing or with the default, a
\* directory.
Occupants ==
    {NoResult, DiskFile(<<"something">>), DiskFile(<<>>), DiskFile(DefaultToml),
     DiskDir(TRUE)}

\* The disk with the entry at the path unless the entry is nothing.
Occupied(d, path, entry) ==
    IF entry = NoResult THEN d ELSE WithEntry(d, path, entry)

\* The working directory and a directory that takes no new entries.
BaseDisk ==
    [entries |-> [p \in {<<>>, LockedPath} |->
                    IF p = <<>> THEN DiskDir(TRUE) ELSE DiskDir(FALSE)]]

\* The disks create_default starts on: ws is missing, a file, or a directory
\* with anything at ws/docwen.toml and with ws/sub missing or a directory.
Disks ==
    {BaseDisk, WithEntry(BaseDisk, WsPath, DiskFile(<<"something">>))} \cup
    {Occupied(d, Join(WsPath, TomlName), at) :
        d \in {WithEntry(BaseDisk, WsPath, DiskDir(TRUE)),
               WithEntry(WithEntry(BaseDisk, WsPath, DiskDir(TRUE)),
                         SubPath, DiskDir(TRUE))},
        at \in Occupants}

\* The paths create_default is called with.
CreatePaths ==
    {WsPath, Join(WsPath, TomlName), Join(SubPath, TomlName),
     Join(LockedPath, TomlName)}

\* create_default called with a path; write_all gets some or all of
\* DEFAULT_TOML to the file.
Create ==
    /\ \E path \in CreatePaths, written \in 0..Len(DefaultToml) :
        /\ diskBefore' = disk
        /\ disk' = CreateDefault(disk, path, written).disk
        /\ createOut' = [path |-> path,
                         ok |-> CreateDefault(disk, path, written).ok]
    /\ UNCHANGED <<fs, docfig>>
    /\ UNCHANGED <<checkVars, lineVars, indexVars>>
    /\ UNCHANGED <<maskVars, formatVars, docfigVars, updateVars, treeVars>>

InitCreate ==
    /\ disk \in Disks
    /\ diskBefore = NoResult
    /\ createOut = NoResult
    /\ fs = <<>>
    /\ CheckIdle
    /\ LineIdle
    /\ IndexIdle
    /\ MaskIdle
    /\ FormatIdle
    /\ DocfigIdle
    /\ UpdateIdle
    /\ TreeIdle

SpecCreate == InitCreate /\ [][Create]_vars

\* C20: create_default never overwrites: when the target path exists (file
\* or directory) or its parent is missing it returns an error and the disk
\* is as before; whatever it returns, every entry that was there is
\* unchanged; when it succeeds the target is a new file that holds exactly
\* DEFAULT_TOML.
C20_CreateNeverOverwrites ==
    createOut # NoResult =>
        /\ (\/ Exists(diskBefore, createOut.path)
            \/ ~Exists(diskBefore, ParentOf(createOut.path)))
           => ~createOut.ok /\ disk = diskBefore
        /\ \A p \in DOMAIN diskBefore.entries :
            Exists(disk, p) /\ disk.entries[p] = diskBefore.entries[p]
        /\ createOut.ok =>
            /\ ~Exists(diskBefore, createOut.path)
            /\ Exists(disk, createOut.path)
            /\ disk.entries[createOut.path] = DiskFile(DefaultToml)

\* create_default has been called on a path where a file with other content
\* is.
C20_Witness ==
    /\ createOut # NoResult
    /\ ~createOut.ok
    /\ Exists(diskBefore, createOut.path)
    /\ diskBefore.entries[createOut.path] = DiskFile(<<"something">>)
    /\ disk = diskBefore

(***************************************************************************)
(* update_toml and group_by_stem (toml_manager.rs)                         *)
(*                                                                         *)
(* A path below the root is the sequence of its components, each a         *)
(* sequence of characters.  The workspace is the docwen.toml (its text as  *)
(* for Docfig::from_file, and what its [settings] hold) and the files      *)
(* under the root.                                                         *)
(***************************************************************************)
\* Most files under the root.
MaxFiles == 4

UpperCase == <<"A", "B", "C", "D", "E", "F", "G", "H", "I", "J", "K", "L", "M",
               "N", "O", "P", "Q", "R", "S", "T", "U", "V", "W", "X", "Y", "Z">>
LowerCase == <<"a", "b", "c", "d", "e", "f", "g", "h", "i", "j", "k", "l", "m",
               "n", "o", "p", "q", "r", "s", "t", "u", "v", "w", "x", "y", "z">>

\* char::to_ascii_lowercase
CharToAsciiLowercase(c) ==
    IF \E i \in 1..Len(UpperCase) : UpperCase[i] = c
    THEN LowerCase[CHOOSE i \in 1..Len(UpperCase) : UpperCase[i] = c]
    ELSE c

\* str::to_ascii_lowercase
ToAsciiLowercase(s) == [i \in 1..Len(s) |-> CharToAsciiLowercase(s[i])]

\* Vec::contains
Contains(vec, x) == \E i \in 1..Len(vec) : vec[i] = x

\* The place of the last "." of a file name, 0 when it has none.
LastDot(name) ==
    IF \E i \in 1..Len(name) : name[i] = "."
    THEN CHOOSE i \in 1..Len(name) :
            name[i] = "." /\ \A j \in (i + 1)..Len(name) : name[j] # "."
    ELSE 0

\* Path::extension: what follows the last "." of the file name; None when
\* there is no "." or only one that opens the name.
Extension(path) ==
    IF LastDot(path[Len(path)]) <= 1 THEN None
    ELSE Some(SubSeq(path[Len(path)], LastDot(path[Len(path)]) + 1,
                     Len(path[Len(path)])))

\* Path::file_stem: the file name without its extension.
FileStem(path) ==
    IF LastDot(path[Len(path)]) <= 1 THEN Some(path[Len(path)])
    ELSE Some(SubSeq(path[Len(path)], 1, LastDot(path[Len(path)]) - 1))

\* settings.match_extensions, each in lower case, as a set.
MatchExtensions(settings) ==
    {ToAsciiLowercase(settings.match_extensions[i]) :
        i \in 1..Len(settings.match_extensions)}

\* One round of the loop of group_by_stem: the path is skipped when its
\* extension is none of match_extensions and when its stem in lower case is
\* an entry of the ignore list; else it is pushed to the group of that stem.
GroupPath(groups, path, settings) ==
    IF ~Extension(path).some THEN groups
    ELSE IF ToAsciiLowercase(Extension(path).value) \notin MatchExtensions(settings)
    THEN groups
    ELSE IF ~FileStem(path).some THEN groups
    ELSE IF Contains(settings.ignore, ToAsciiLowercase(FileStem(path).value))
    THEN groups
    ELSE EntryPush(groups, ToAsciiLowercase(FileStem(path).value), path)

RECURSIVE GroupPaths(_, _, _)
\* The loop of group_by_stem over the paths.
GroupPaths(groups, paths, settings) ==
    IF paths = <<>> THEN groups
    ELSE GroupPaths(GroupPath(groups, Head(paths), settings), Tail(paths),
                    settings)

RECURSIVE Orders(_)
\* The orders in which the elements of a set can come.
Orders(S) ==
    IF S = {} THEN {<<>>}
    ELSE UNION {{<<x>> \o rest : rest \in Orders(S \ {x})} : x \in S}

\* group_by_stem: the groups of the HashMap as a Vec, in any of the orders
\* its iterator may give.
GroupByStem(paths, settings) ==
    {[i \in 1..Len(names) |->
        FileGroup(names[i], GroupPaths(EmptyMap, paths, settings)[names[i]])] :
     names \in Orders(DOMAIN GroupPaths(EmptyMap, paths, settings))}

\* groups.retain(|g| g.files.len() > 1)
RetainGroups(groups) == SelectSeq(groups, LAMBDA g : Len(g.files) > 1)

\* A merge that pushes every group.
PushGroup(file_groups, g) == Append(file_groups, g)

\* One round of the merge of update_toml: the first group that equals g,
\* that is has its name, becomes g; without one g is pushed.
MergeGroup(file_groups, g) ==
    IF \E i \in 1..Len(file_groups) : file_groups[i].name = g.name
    THEN [file_groups EXCEPT
            ![CHOOSE i \in 1..Len(file_groups) :
                /\ file_groups[i].name = g.name
                /\ \A j \in 1..(i - 1) : file_groups[j].name # g.name] = g]
    ELSE Append(file_groups, g)

\* A merge that keeps the new groups only.
NewGroupsOnly(file_groups, groups) == groups

RECURSIVE MergeGroups(_, _)
\* The merge of update_toml.
MergeGroups(file_groups, groups) ==
    IF groups = <<>> THEN file_groups
    ELSE MergeGroups(MergeGroup(file_groups, Head(groups)), Tail(groups))

\* toml::to_string_pretty of a Docfig: [settings], then a [[filegroup]]
\* table for every file group.
ToTables(file_groups) ==
    <<SettingsTable>> \o
    [i \in 1..Len(file_groups) |->
        Table("filegroup", file_groups[i].name, file_groups[i].files)]

\* update_toml behind Docfig::from_file and the walk of the root, with what
\* group_by_stem returned and whether docwen.toml can be written: its result
\* and the workspace it leaves.  What [settings] hold is written as read.
UpdateLoaded(ws, loaded, groups, writable) ==
    IF ~loaded.ok \/ ~writable THEN [ok |-> FALSE, workspace |-> ws]
    ELSE [ok |-> TRUE,
          workspace |->
            [ws EXCEPT !.file.raw =
                ToTables(MergeGroups(loaded.value.file_groups,
                                     RetainGroups(groups)))]]

\* update_toml with the files in the order of the walk.
UpdateToml(ws, groups, writable) ==
    UpdateLoaded(ws, FromFile(ws.file), groups, writable)

\* The files that may lie under the root.
WalkFiles ==
    {<<<<"a", ".", "c">>>>, <<<<"A", ".", "h">>>>,
     <<<<"d">>, <<"b", ".", "c">>>>, <<<<"B", ".", "H">>>>,
     <<<<"b", ".", "t", "x", "t">>>>}

\* What [settings] may hold.
SettingsOf(match_extensions, ignore) ==
    [match_extensions |-> match_extensions, ignore |-> ignore]
WorkspaceSettings ==
    {SettingsOf(m, i) :
        m \in {<<<<"H">>, <<"c">>>>},
        i \in {<<>>, <<<<"a">>>>, <<<<"A">>>>}}

\* The file groups docwen.toml may hold before the first update: none, a
\* group of one file, groups with the names of stems in either case, and two
\* groups of one name.
WrittenGroups ==
    {<<>>,
     <<FileGroup(<<"a">>, <<<<<<"a", ".", "c">>>>>>)>>,
     <<FileGroup(<<"A">>, <<<<<<"A", ".", "C">>>>>>),
       FileGroup(<<"b">>, <<<<<<"x", ".", "c">>>>, <<<<"x", ".", "h">>>>>>)>>,
     <<FileGroup(<<"k">>, <<<<<<"k", ".", "c">>>>>>),
       FileGroup(<<"a">>, <<<<<<"o", ".", "c">>>>>>)>>,
     <<FileGroup(<<"a">>, <<>>), FileGroup(<<"a">>, <<>>)>>}

\* update_toml runs: the walk gives the files in some order, group_by_stem
\* its groups in some order, and docwen.toml can be written or not.  The
\* call is logged with what group_by_stem returned, nothing when from_file
\* failed before it.
Update ==
    /\ workspace # NoResult
    /\ \E paths \in Orders(workspace.files), writable \in BOOLEAN :
        \E groups \in GroupByStem(paths, workspace.settings) :
            /\ workspaceBefore' = workspace
            /\ workspace' = UpdateToml(workspace, groups, writable).workspace
            /\ updateOut' = [ok |-> UpdateToml(workspace, groups, writable).ok,
                             groups |-> IF FromFile(workspace.file).ok
                                        THEN groups ELSE <<>>]
    /\ UNCHANGED <<fs, docfig>>
    /\ UNCHANGED <<checkVars, lineVars, indexVars>>
    /\ UNCHANGED <<maskVars, formatVars, docfigVars, createVars, treeVars>>

InitUpdate ==
    /\ workspace \in
        [file : {[readable |-> FALSE, raw |-> <<>>]} \cup
                {[readable |-> TRUE, raw |-> ToTables(gs)] : gs \in WrittenGroups},
         settings : WorkspaceSettings,
         files : {files \in SUBSET WalkFiles : Cardinality(files) <= MaxFiles}]
    /\ workspaceBefore = NoResult
    /\ updateOut = NoResult
    /\ fs = <<>>
    /\ CheckIdle
    /\ LineIdle
    /\ IndexIdle
    /\ MaskIdle
    /\ FormatIdle
    /\ DocfigIdle
    /\ CreateIdle
    /\ TreeIdle

SpecUpdate == InitUpdate /\ [][Update]_vars

\* The file groups of a docwen.toml that loads.
GroupsIn(ws) == FromFile(ws.file).value.file_groups

\* The groups of more than one file the last update found.
Found == RetainGroups(updateOut.groups)

\* The files the last update found for a name, when it found a group of
\* more than one file with that name.
FoundFiles(name) ==
    {Found[k].files : k \in {k \in 1..Len(Found) : Found[k].name = name}}

Ignored(path, settings) ==
    \E i \in 1..Len(settings.ignore) :
        ToAsciiLowercase(settings.ignore[i])
            = ToAsciiLowercase(FileStem(path).value)

\* C22: group_by_stem applies the ignore list case-insensitively: a file
\* whose stem equals an entry of the ignore list when ASCII case is
\* disregarded is in no group it returns.
C22_IgnoreListCaseInsensitive ==
    updateOut # NoResult =>
        \A path \in workspaceBefore.files :
            Ignored(path, workspaceBefore.settings) =>
                \A k \in 1..Len(updateOut.groups) :
                    ~Contains(updateOut.groups[k].files, path)

\* C30: after any sequence of update_toml runs from a docwen.toml that loads,
\* the docwen.toml written has pairwise distinct file-group names and
\* Docfig::from_file loads it.
C30_UpdatedConfigLoads ==
    (updateOut # NoResult /\ updateOut.ok) =>
        /\ FromFile(workspace.file).ok
        /\ \A i, j \in 1..Len(GroupsIn(workspace)) :
            i # j => GroupsIn(workspace)[i].name # GroupsIn(workspace)[j].name

\* A second update has succeeded on what a first update wrote, and has found
\* a group that the first update had pushed.
C30_Witness ==
    /\ updateOut # NoResult
    /\ updateOut.ok
    /\ workspaceBefore.file.raw \notin {ToTables(gs) : gs \in WrittenGroups}
    /\ \E k \in 1..Len(Found), i \in 1..Len(GroupsIn(workspaceBefore)) :
        GroupsIn(workspaceBefore)[i].name = Found[k].name

(***************************************************************************)
(* c_parse.rs on syntax trees of nested scopes and declarators             *)
(*                                                                         *)
(* The trees are those the C++ grammar gives for the texts named, each on  *)
(* one line; a node is written with its kind, its parent, its column, its  *)
(* text and its field.                                                     *)
(***************************************************************************)
N(kind, parent, column, text, field) == Node(kind, parent, 0, column, text, field)

NoParams == <<"(", ")">>

\* int (*f(int))(double);
\* The declarator of f lies inside the declarator of the function type.
NestedDeclaratorDecl ==
    << N("translation_unit", 0, 0, <<>>, ""),
       N("declaration", 1, 0, <<>>, ""),
       N("primitive_type", 2, 0, <<"i", "n", "t">>, "type"),
       N("function_declarator", 2, 4, <<>>, "declarator"),
       N("parenthesized_declarator", 4, 4, <<>>, "declarator"),
       N("pointer_declarator", 5, 5, <<>>, ""),
       N("function_declarator", 6, 6, <<>>, "declarator"),
       N("identifier", 7, 6, <<"f">>, "declarator"),
       N("parameter_list", 7, 7, <<"(", "i", "n", "t", ")">>, "parameters"),
       N("parameter_list", 4, 13,
         <<"(", "d", "o", "u", "b", "l", "e", ")">>, "parameters") >>

\* int (*f(int))(double) {}
NestedDeclaratorDef ==
    [k \in 1..(Len(NestedDeclaratorDecl) + 1) |->
        IF k = 2 THEN N("function_definition", 1, 0, <<>>, "")
        ELSE IF k <= Len(NestedDeclaratorDecl) THEN NestedDeclaratorDecl[k]
        ELSE N("compound_statement", 2, 22, <<>>, "body")]

\* void g() { struct L { void m() {} }; }
\* The definition of m is a member of a class local to g.
LocalClass ==
    << N("translation_unit", 0, 0, <<>>, ""),
       N("function_definition", 1, 0, <<>>, ""),
       N("primitive_type", 2, 0, <<"v", "o", "i", "d">>, "type"),
       N("function_declarator", 2, 5, <<>>, "declarator"),
       N("identifier", 4, 5, <<"g">>, "declarator"),
       N("parameter_list", 4, 6, NoParams, "parameters"),
       N("compound_statement", 2, 9, <<>>, "body"),
       N("struct_specifier", 7, 11, <<>>, ""),
       N("type_identifier", 8, 18, <<"L">>, "name"),
       N("field_declaration_list", 8, 20, <<>>, "body"),
       N("function_definition", 10, 22, <<>>, ""),
       N("primitive_type", 11, 22, <<"v", "o", "i", "d">>, "type"),
       N("function_declarator", 11, 27, <<>>, "declarator"),
       N("field_identifier", 13, 27, <<"m">>, "declarator"),
       N("parameter_list", 13, 28, NoParams, "parameters"),
       N("compound_statement", 11, 31, <<>>, "body") >>

\* namespace util { struct A { int bar(); }; }
NamespaceAndStruct ==
    << N("translation_unit", 0, 0, <<>>, ""),
       N("namespace_definition", 1, 0, <<>>, ""),
       N("namespace_identifier", 2, 10, <<"u", "t", "i", "l">>, "name"),
       N("declaration_list", 2, 15, <<>>, "body"),
       N("struct_specifier", 4, 17, <<>>, ""),
       N("type_identifier", 5, 24, <<"A">>, "name"),
       N("field_declaration_list", 5, 26, <<>>, "body"),
       N("field_declaration", 7, 28, <<>>, ""),
       N("primitive_type", 8, 28, <<"i", "n", "t">>, "type"),
       N("function_declarator", 8, 32, <<>>, "declarator"),
       N("field_identifier", 10, 32, <<"b", "a", "r">>, "declarator"),
       N("parameter_list", 10, 35, NoParams, "parameters") >>

\* namespace o::i { union U { int poke(); }; }
NestedNamespaceAndUnion ==
    [k \in 1..Len(NamespaceAndStruct) |->
        IF k = 3
        THEN N("nested_namespace_specifier", 2, 10, <<"o", ":", ":", "i">>, "name")
        ELSE IF k = 5 THEN N("union_specifier", 4, 17, <<>>, "")
        ELSE IF k = 6 THEN N("type_identifier", 5, 23, <<"U">>, "name")
        ELSE IF k = 11
        THEN N("field_identifier", 10, 32, <<"p", "o", "k", "e">>, "declarator")
        ELSE NamespaceAndStruct[k]]

\* namespace { struct { int f(); } s; }
\* Neither the namespace nor the struct has a name.
AnonymousScopes ==
    << N("translation_unit", 0, 0, <<>>, ""),
       N("namespace_definition", 1, 0, <<>>, ""),
       N("declaration_list", 2, 10, <<>>, "body"),
       N("declaration", 3, 12, <<>>, ""),
       N("struct_specifier", 4, 12, <<>>, "type"),
       N("field_declaration_list", 5, 19, <<>>, "body"),
       N("field_declaration", 6, 21, <<>>, ""),
       N("primitive_type", 7, 21, <<"i", "n", "t">>, "type"),
       N("function_declarator", 7, 25, <<>>, "declarator"),
       N("field_identifier", 9, 25, <<"f">>, "declarator"),
       N("parameter_list", 9, 26, NoParams, "parameters"),
       N("identifier", 4, 32, <<"s">>, "declarator") >>

\* class C { struct { int g(); } s; };
\* A struct without a name inside a class with one.
AnonymousInClass ==
    << N("translation_unit", 0, 0, <<>>, ""),
       N("class_specifier", 1, 0, <<>>, ""),
       N("type_identifier", 2, 6, <<"C">>, "name"),
       N("field_declaration_list", 2, 8, <<>>, "body"),
       N("field_declaration", 4, 10, <<>>, ""),
       N("struct_specifier", 5, 10, <<>>, "type"),
       N("field_declaration_list", 6, 17, <<>>, "body"),
       N("field_declaration", 7, 19, <<>>, ""),
       N("primitive_type", 8, 19, <<"i", "n", "t">>, "type"),
       N("function_declarator", 8, 23, <<>>, "declarator"),
       N("field_identifier", 10, 23, <<"g">>, "declarator"),
       N("parameter_list", 10, 24, NoParams, "parameters"),
       N("field_identifier", 5, 30, <<"s">>, "declarator") >>

\* The trees of the texts above, and those of a declaration, a definition
\* and a declaration in a namespace as the model's parser gives them.
SampleTrees ==
    {NestedDeclaratorDecl, NestedDeclaratorDef, LocalClass, NamespaceAndStruct,
     NestedNamespaceAndUnion, AnonymousScopes, AnonymousInClass,
     ParseTree(TextOf(<<DeclF>>)), ParseTree(TextOf(<<DefF>>)),
     ParseTree(TextOf(<<InAF>>))}

\* The file the trees are of.
TreeFile == Join(Root, PathA)

\* The nodes the closure of extract_functions looks at.
Matched(tree) ==
    {n \in 1..Len(tree) :
        tree[n].kind \in {"function_definition", "function_declarator"}}

\* extract_functions called on the tree with an empty map.
Extract ==
    /\ treeOut = NoResult
    /\ treeOut' = [call |-> "extract_functions",
                   map |-> ExtractFunctions(treeIn.tree, TreeFile, EmptyMap,
                                            treeIn.use_qualifiers)]
    /\ UNCHANGED <<fs, docfig, treeIn>>
    /\ UNCHANGED <<checkVars, lineVars, indexVars>>
    /\ UNCHANGED <<maskVars, formatVars, docfigVars, createVars, updateVars>>

\* get_function_id called on a node of the tree, with what its
\* find_declarator returned.
Identify ==
    /\ treeOut = NoResult
    /\ \E n \in 1..Len(treeIn.tree) :
        treeOut' = [call |-> "get_function_id",
                    node |-> n,
                    declarator |-> FindDeclarator(treeIn.tree, n),
                    id |-> GetFunctionId(treeIn.tree, n, treeIn.use_qualifiers)]
    /\ UNCHANGED <<fs, docfig, treeIn>>
    /\ UNCHANGED <<checkVars, lineVars, indexVars>>
    /\ UNCHANGED <<maskVars, formatVars, docfigVars, createVars, updateVars>>

\* get_qualified_name called on a matched node with a name.
Qualify ==
    /\ treeOut = NoResult
    /\ \E n \in Matched(treeIn.tree), func_name \in {<<"f">>, <<"X", ":", ":", "f">>} :
        treeOut' = [call |-> "get_qualified_name",
                    node |-> n,
                    func_name |-> func_name,
                    name |-> GetQualifiedName(treeIn.tree, n, func_name)]
    /\ UNCHANGED <<fs, docfig, treeIn>>
    /\ UNCHANGED <<checkVars, lineVars, indexVars>>
    /\ UNCHANGED <<maskVars, formatVars, docfigVars, createVars, updateVars>>

InitTree ==
    /\ treeIn \in [tree : SampleTrees, use_qualifiers : BOOLEAN]
    /\ treeOut = NoResult
    /\ fs = <<>>
    /\ CheckIdle
    /\ LineIdle
    /\ IndexIdle
    /\ MaskIdle
    /\ FormatIdle
    /\ DocfigIdle
    /\ CreateIdle
    /\ UpdateIdle

SpecTree == InitTree /\ [][Extract \/ Identify \/ Qualify]_vars

RECURSIVE IsAncestor(_, _, _)
\* Node a is above node n in the tree.
IsAncestor(tree, a, n) ==
    /\ tree[n].parent # 0
    /\ (tree[n].parent = a \/ IsAncestor(tree, a, tree[n].parent))

\* The position extract_functions gives a node.
PositionOf(tree, n) == FilePosition(TreeFile, tree[n].row, tree[n].column)

\* The positions of a map, of all its identities.
PositionsIn(map) ==
    UNION {{map[id][i] : i \in 1..Len(map[id])} : id \in DOMAIN map}

\* C23: in extract_functions every function definition that an identity can
\* be derived from is a candidate whatever its ancestors: its position is in
\* the map under that identity; a function declarator is skipped when a
\* function definition is among its ancestors.
C23_NestedDefinitionExtracted ==
    (treeOut # NoResult /\ treeOut.call = "extract_functions") =>
        \A n \in Matched(treeIn.tree) :
            /\ (/\ treeIn.tree[n].kind = "function_definition"
                /\ GetFunctionId(treeIn.tree, n, treeIn.use_qualifiers).some)
               => /\ GetFunctionId(treeIn.tree, n, treeIn.use_qualifiers).value
                        \in DOMAIN treeOut.map
                  /\ Contains(treeOut.map[GetFunctionId(treeIn.tree, n,
                                              treeIn.use_qualifiers).value],
                              PositionOf(treeIn.tree, n))
            /\ (/\ treeIn.tree[n].kind = "function_declarator"
                /\ \E a \in 1..Len(treeIn.tree) :
                    /\ IsAncestor(treeIn.tree, a, n)
                    /\ treeIn.tree[a].kind = "function_definition")
               => PositionOf(treeIn.tree, n) \notin PositionsIn(treeOut.map)

\* The function declarators at or below node n that have no function
\* declarator below them.
Innermost(tree, n) ==
    {d \in 1..Len(tree) :
        /\ d = n \/ IsAncestor(tree, n, d)
        /\ tree[d].kind = "function_declarator"
        /\ \A e \in 1..Len(tree) :
            IsAncestor(tree, d, e) => tree[e].kind # "function_declarator"}

\* C24: when function declarators are nested below a matched node,
\* find_declarator returns the innermost one, and the identity is the name
\* and the parameters of that node.
C24_InnermostDeclarator ==
    (/\ treeOut # NoResult
     /\ treeOut.call = "get_function_id"
     /\ treeOut.node \in Matched(treeIn.tree)
     /\ Innermost(treeIn.tree, treeOut.node) # {}) =>
        \E d \in Innermost(treeIn.tree, treeOut.node) :
            /\ treeOut.declarator = Some(d)
            /\ treeOut.id = IdOfDeclarator(treeIn.tree, treeOut.node, Some(d),
                                           treeIn.use_qualifiers)

\* The names of the named scopes above node n from node k on; in pre-order
\* an outer scope comes before an inner one.
RECURSIVE ScopeNamesFrom(_, _, _)
ScopeNamesFrom(tree, n, k) ==
    IF k >= n THEN <<>>
    ELSE (IF /\ IsAncestor(tree, k, n)
             /\ tree[k].kind \in ScopeKinds
             /\ \E c \in 1..Len(tree) : tree[c].parent = k /\ tree[c].field = "name"
          THEN <<tree[CHOOSE c \in 1..Len(tree) :
                        tree[c].parent = k /\ tree[c].field = "name"].text>>
          ELSE <<>>)
         \o ScopeNamesFrom(tree, n, k + 1)

RECURSIVE Prefixed(_, _)
\* Each name followed by "::", then the last string.
Prefixed(names, last) ==
    IF names = <<>> THEN last
    ELSE Head(names) \o <<":", ":">> \o Prefixed(Tail(names), last)

\* C25: get_qualified_name returns the names of the named class, struct,
\* union and namespace ancestors of the node, outermost first, each followed
\* by `::`, and then the given name; ancestors without a name add nothing,
\* and without a named ancestor the result is the given name.
C25_QualifiedNameOuterToInner ==
    (treeOut # NoResult /\ treeOut.call = "get_qualified_name") =>
        treeOut.name =
            Prefixed(ScopeNamesFrom(treeIn.tree, treeOut.node, 1),
                     treeOut.func_name)

\* get_qualified_name has been called below two named scopes, and below a
\* scope without a name inside a named one.
C25_Witness ==
    /\ treeOut # NoResult
    /\ treeOut.call = "get_qualified_name"
    /\ \/ Len(ScopeNamesFrom(treeIn.tree, treeOut.node, 1)) = 2
       \/ /\ treeIn.tree = AnonymousInClass
          /\ Len(ScopeNamesFrom(treeIn.tree, treeOut.node, 1)) = 1

(***************************************************************************)
(* Properties of the scan of check (docwen_check.rs)                       *)
(***************************************************************************)
\* Some occurrence has no comment line at the offset, its line lying inside
\* its file.
SomeLacksComment(vec, offset) ==
    \E i \in 1..Len(vec) :
        InFile(vec[i], offset) /\ ~IsCommentLine(LineAt(vec[i], offset))

\* C26: when a mismatch is emitted because an occurrence has a doc comment
\* line at the divergent offset that another occurrence lacks, the line
\* quoted in the mismatch is a comment line of one of the occurrences,
\* whichever occurrence comes first in the position list.
C26_QuotedLineIsDocLine ==
    \A s \in scanned :
        (Len(s.pushed) = 1 /\ SomeLacksComment(Occurrences(s), s.pushed[1].offset))
            => /\ IsCommentLine(s.pushed[1].line)
               /\ \E i \in 1..Len(Occurrences(s)) :
                    LineAt(Occurrences(s)[i], s.pushed[1].offset) = s.pushed[1].line
               /\ \E k \in 1..Len(mismatches) :
                    /\ mismatches[k].group = Printed(Occurrences(s))
                    /\ mismatches[k].line = s.pushed[1].line

\* A line starts with `//`, `/*` or `*`.
StartsComment(line) ==
    \/ Len(line) >= 1 /\ line[1] = "*"
    \/ Len(line) >= 2 /\ line[1] = "/" /\ line[2] \in {"/", "*"}

\* No occurrence has a comment line at the offset, each having a line there.
NoComment(vec, offset) ==
    \A i \in 1..Len(vec) :
        InFile(vec[i], offset) /\ ~StartsComment(LineAt(vec[i], offset))

\* The lines of the occurrences at the offset are not all the same.
LinesDiffer(vec, offset) ==
    \E i, j \in 1..Len(vec) :
        /\ InFile(vec[i], offset) /\ InFile(vec[j], offset)
        /\ LineAt(vec[i], offset) # LineAt(vec[j], offset)

\* C27: the backward scan of an identity starts at offset -1 and never looks
\* above the first offset at which no occurrence has a comment line; it
\* pushes no mismatch exactly when it gets to that offset, whatever the
\* lines above it are.
C27_ScanStopsAtFirstNonComment ==
    \A s \in scanned :
        /\ s.offset <= 0 - 1
        /\ \A o \in s.offset..(0 - 1) :
            NoComment(Occurrences(s), o) => (o = s.offset /\ s.pushed = <<>>)
        /\ s.pushed = <<>> => NoComment(Occurrences(s), s.offset)

\* A scan has stopped without a mismatch at a line that is no comment in all
\* occurrences, below doc lines that differ.
C27_Witness ==
    \E s \in scanned :
        /\ s.pushed = <<>>
        /\ s.offset < 0 - 1
        /\ NoComment(Occurrences(s), s.offset)
        /\ LinesDiffer(Occurrences(s), s.offset - 1)
        /\ \E i \in 1..Len(Occurrences(s)) :
            /\ InFile(Occurrences(s)[i], s.offset - 1)
            /\ StartsComment(LineAt(Occurrences(s)[i], s.offset - 1))
        /\ pc = "done"
        /\ result.ok

\* C28: for every identity the backward scan ends normally: past the top of
\* a file the line reads as empty and ends the scan like a line that is no
\* comment, so check on files that can be read and parsed returns a mismatch
\* list, and has scanned every identity of every map.
C28_ScanEndsAtTopOfFile ==
    (pc = "done" /\ ~SomeFileFails) =>
        /\ result.ok
        /\ \A e \in Entries :
            Occurrences(e) # <<>> =>
                \E s \in scanned : s.map = e.map /\ s.id = e.id

(***************************************************************************)
(* check on two file groups that hold the same functions                   *)
(***************************************************************************)
\* Files that declare f, g or both, each below one doc line, under a blank
\* first line.
GroupedFiles ==
    {File(TRUE, TRUE, TextOf(<<Blank>> \o decls)) :
        decls \in {<<d, DeclF>> : d \in DocLines}
             \cup {<<d, DeclG>> : d \in DocLines}
             \cup {<<d, DeclF, e, DeclG>> : d \in DocLines, e \in DocLines}}

\* b.c is in both groups, a.c in the first only and c.c in the second only;
\* or the second group is c.c alone.
TwoGroupsScenario ==
    [docfig : { << FileGroup("g1", <<PathA, PathB>>),
                   FileGroup("g2", <<PathC, PathB>>) >>,
                << FileGroup("g1", <<PathA, PathB>>),
                   FileGroup("g2", <<PathC>>) >> },
     fs : FileSystems(GroupedFiles, GroupedFiles, GroupedFiles)]

InitGroups ==
    /\ \E sc \in TwoGroupsScenario : docfig = sc.docfig /\ fs = sc.fs
    /\ CheckStart
    /\ LineIdle
    /\ IndexIdle
    /\ UnitsIdle

SpecGroups == InitGroups /\ [][Next]_vars

\* The files of the m-th file group.
PathsOfGroup(m) ==
    {Join(Root, docfig[m].files[i]) : i \in 1..Len(docfig[m].files)}

\* The identities of the functions of these files.
IdF == FunctionID(<<"f">>, <<"(", ")">>)
IdG == FunctionID(<<"g">>, <<"(", ")">>)

\* The (file, row) pairs at which the files of the m-th group declare the
\* identity.
DeclaredIn(m, id) ==
    {<<p, r>> \in PathsOfGroup(m) \X (0..4) :
        /\ r < Len(Lines(fs[p].src))
        /\ Lines(fs[p].src)[r + 1] = (IF id = IdF THEN DeclF ELSE DeclG)}

\* The first offset at which the lines of the occurrences differ, one of
\* them a comment line, exists: all nearer lines are the same comment line.
Diverges(vec) ==
    \E o \in (0 - MaxDoc - 1)..(0 - 1) :
        /\ Divergent(vec, o)
        /\ \A n \in (o + 1)..(0 - 1) : EqualComments(vec, n)

\* C29: identities are indexed per file group: the map of a group holds the
\* identities that occur at least twice in the files of that group, with
\* their positions in these files and no others, so a function that occurs
\* once in each of two groups is in neither map; a mismatch is pushed for an
\* identity of a group exactly when the docs of its occurrences in that
\* group diverge, whatever the other groups hold.
C29_IndexedPerGroup ==
    /\ \A m \in 1..Len(position_maps) :
        /\ DOMAIN position_maps[m] \subseteq {IdF, IdG}
        /\ \A id \in {IdF, IdG} :
            /\ id \in DOMAIN position_maps[m]
                <=> Cardinality(DeclaredIn(m, id)) >= 2
            /\ id \in DOMAIN position_maps[m] =>
                {<<position_maps[m][id][i].path, position_maps[m][id][i].row>> :
                    i \in 1..Len(position_maps[m][id])} = DeclaredIn(m, id)
    /\ \A s \in scanned :
        /\ s.pushed # <<>> <=> Diverges(position_maps[s.map][s.id])
        /\ s.pushed # <<>> =>
            \E k \in 1..Len(mismatches) :
                mismatches[k].group = Printed(position_maps[s.map][s.id])
    /\ Len(mismatches) = Cardinality({s \in scanned : s.pushed # <<>>})

\* check has returned: f occurs once in each group, with different doc
\* lines, and is in neither map; g is in both maps, and its docs diverge in
\* the first group only.
C29_Witness ==
    /\ pc = "done"
    /\ result.ok
    /\ Len(position_maps) = 2
    /\ Cardinality(DeclaredIn(1, IdF)) = 1
    /\ Cardinality(DeclaredIn(2, IdF)) = 1
    /\ fs[Join(Root, PathA)] # fs[Join(Root, PathC)]
    /\ FilePosition(Join(Root, PathA), 2, 0) \notin PositionsIn(position_maps[1])
    /\ IdG \in DOMAIN position_maps[1] \cap DOMAIN position_maps[2]
    /\ Diverges(position_maps[1][IdG])
    /\ ~Diverges(position_maps[2][IdG])
    /\ Len(result.value) = 1

=============================================================================
